---- MODULE Spec2Model ----
(***************************************************************************)
(* Serial transport and measurement engine of the signalbridge test suite. *)
(*                                                                         *)
(*   SerialInterface  (src/src/serial_interface.py): framer, RTS           *)
(*                    watermarks, inbound queue, processor, write().       *)
(*   calculate_checksum (src/src/checksum.py)                              *)
(*   BaseTest / StressTest (src/src/base_test.py, src/src/stress_test.py): *)
(*                    publish, handle_message, echo bursts.                *)
(*                                                                         *)
(* Three specifications share the variables:                               *)
(*   SpecRx       reader-side framing and the processor, fed byte chunks   *)
(*   SpecTx       write() under every port / stop-event state              *)
(*   SpecLatency  the scenario thread against the processor thread         *)
(***************************************************************************)
EXTENDS Integers, Sequences, FiniteSets, TLC

\* ------------------------------------------------------------------ bounds

\* max_message_size handed to _handle_received_data; _read_data passes 1024,
\* the model's receive specification works with a small frame limit.
MaxMessageSize == 4

\* Total number of bytes the receive specification feeds to the framer.
MaxRxBytes == 8

\* Longest chunk one call of _handle_received_data is given.
MaxChunk == 2

\* Longest payload handed to write() and number of write() calls.
MaxPayloadLen == 2

MaxWrites == 1

\* Echo bursts a run performs, and the largest cfg.num_messages of a burst.
MaxBursts == 2

MaxMessages == 2

\* Bursts of one run against the echoing device.
MaxEchoBursts == 1

\* Readings of the status clock and status responses handled in one run
\* (which calls _request_status_snapshot once).
MaxClock == 3

MaxResponses == 3

\* Largest counter value of a statistics snapshot, and longest list of
\* latencies handed to evaluate_verdict.
MaxCounter == 1

MaxLatencies == 2

\* Scenario results handed to aggregate_verdict.
MaxScenarios == 3

\* Calls of close() and set_baudrate() in one run.
MaxCalls == 2

\* Frames the device sends of its own accord.
MaxDeviceFrames == 2

\* Baud rates in the list of one sweep.
MaxRates == 2

\* Menu selections in one run.
MaxSelections == 2

\* Echoes that arrive during one latency test.
MaxArrivals == 2

\* ------------------------------------------------------- program constants

\* Watermarks as the back-pressure test sets them (768 / 256 in the class).
BUFFER_HIGH_WATER == 3

BUFFER_LOW_WATER == 1

\* max_message_size of the reader thread.
READ_MAX_MESSAGE_SIZE == 1024

ECHO_COMMAND == 20

\* message_length the bursts publish with (the smallest valid length).
MESSAGE_LENGTH == 6

\* The size of the two-byte counter space.
MAX_SAMPLE_SIZE == 65536

\* The defaults of the option dialog of the latency test.
DEFAULT_NUM_TIMES == 5

DEFAULT_SAMPLES == 255

\* Byte values the receive specification draws chunks from: the delimiter,
\* and code bytes that give frames which decode, fail to decode, or decode
\* to fewer than two bytes.
RxBytes == {0, 1, 3}

\* Byte values of the payloads handed to write(): 0x00, 0x34 (the header
\* byte of publish) and 0xFF.
TxBytes == {0, 52, 255}

\* ------------------------------------------------------------------- state

VARIABLES
    ser,                \* self.ser: "none" (None) or "open" (a port object)
    rts,                \* self.ser.rts
    stop_event,         \* self.stop_event.is_set()
    buffer,             \* self.buffer, the accumulator
    message_queue,      \* self.message_queue (FIFO)
    message_handler,    \* self.message_handler: "none", "stub" or "base_test"
    processing_thread,  \* "unstarted", "running", "in_handler", "terminated"
    bytes_received,     \* statistics.bytes_received
    bytes_sent,         \* statistics.bytes_sent
    commands_sent,      \* statistics.commands_sent
    commands_received,  \* statistics.commands_received
    port_out,           \* every message handed to self.ser.write, in order
    rx_log,             \* every byte delivered to the framer, in order
    enq_log,            \* every frame put on the queue, in order
    taken,              \* frames the processor has taken from the queue
    handled,            \* handler invocations <<command, decoded, raw>>
    writes_called,      \* number of calls of write() so far
    last_call,          \* what the most recent operation was given and found
    latency_msg_sent,   \* BaseTest.latency_msg_sent: counter -> send time
    latency_msg_received, \* BaseTest.latency_msg_received: counter -> latency
    now,                \* the monotonic clock, in publishes
    handler_local,      \* locals of a handle_message call in progress
    scenario,           \* the scenario thread: its position and locals
    burst_result,       \* messages_sent / messages_received of each result
    device_pos,         \* how many written frames the device has consumed
    rx_wire,            \* bytes the device has sent, not yet read
    read_thread,        \* self.read_thread: "unstarted", "running", "terminated"
    baudrate,           \* self.baudrate
    closer,             \* a close() / set_baudrate() call in progress
    app,                \* ApplicationManager: mode, connected, menu thread
    delivered,          \* where each dispatched frame went, and in what mode
    statistics_values,      \* BaseTest._statistics_values: slot -> value
    statistics_updated_at,  \* BaseTest._statistics_updated_at: slot -> time
    task_values,            \* BaseTest._task_values: slot -> record
    task_updated_at,        \* BaseTest._task_updated_at: slot -> time
    status_lock,        \* who holds BaseTest._status_lock
    status_handler,     \* a status branch of handle_message in progress
    snapshot,           \* a _request_status_snapshot call: position, locals
    status_clock,       \* time.perf_counter() as the status code reads it
    stored_by,          \* per slot: the response whose value the slot holds
    calc,               \* the pure calculation last applied, and its result
    sweep,              \* the baud-rate run in progress and its output
    test,               \* the latency test in progress and its output
    counting            \* the += of each thread on the statistics, in progress

vars == <<ser, rts, stop_event, buffer, message_queue, message_handler,
          processing_thread, bytes_received, bytes_sent, commands_sent,
          commands_received, port_out, rx_log, enq_log, taken, handled,
          writes_called, last_call, latency_msg_sent, latency_msg_received,
          now, handler_local, scenario, burst_result, device_pos, rx_wire,
          read_thread, baudrate, closer, app, delivered,
          statistics_values, statistics_updated_at, task_values,
          task_updated_at, status_lock, status_handler, snapshot,
          status_clock, stored_by, calc, sweep, test, counting>>

\* The variables of the receive path, of the send path, and the ghost logs.
rxVars == <<buffer, message_queue, bytes_received, rx_log, enq_log>>

procVars == <<processing_thread, commands_received, taken, handled>>

txVars == <<bytes_sent, commands_sent, port_out, writes_called>>

latVars == <<latency_msg_sent, latency_msg_received, now, handler_local,
             scenario, burst_result, device_pos, rx_wire>>

\* The worker threads' lifecycle and the reconfiguration in progress.
lifeVars == <<read_thread, baudrate, closer>>

\* The application manager and the record of its routing.
appVars == <<app, delivered>>

\* What the actions of the serial data path leave alone.
extVars == <<lifeVars, appVars>>

\* The status maps of BaseTest, their lock, and the two threads using it.
statusVars == <<statistics_values, statistics_updated_at, task_values,
                task_updated_at, status_lock, status_handler, snapshot,
                status_clock, stored_by>>

\* What the actions of the serial interface and the menu leave alone.
calcVars == <<statusVars, calc, sweep, test, counting>>

\* ----------------------------------------------------------------- helpers

\* All sequences over S of length lo..hi.
SeqsOf(S, lo, hi) == UNION {[1..n -> S] : n \in lo..hi}

RECURSIVE XorByte(_, _)
\* a ^ b on 0..255.
XorByte(a, b) ==
    IF a = 0 /\ b = 0 THEN 0
    ELSE (((a % 2) + (b % 2)) % 2) + 2 * XorByte(a \div 2, b \div 2)

RECURSIVE SumFold(_, _)
SumFold(data, acc) ==
    IF data = <<>> THEN acc
    ELSE SumFold(Tail(data), (acc + Head(data)) % 256)

\* A checksum that adds the bytes instead of XORing them.
calculate_checksum_Sum(data) == <<SumFold(data, 0)>>

RECURSIVE ChecksumFold(_, _)
ChecksumFold(data, acc) ==
    IF data = <<>> THEN acc
    ELSE ChecksumFold(Tail(data), XorByte(acc, Head(data)))

\* calculate_checksum: the one-byte XOR of all bytes of data.
calculate_checksum(data) == <<ChecksumFold(data, 0)>>

\* data[1] & 0x1F (Python index 1 is the second byte).
CommandOf(data) == data[2] % 32

RECURSIVE CobsEncodeLoop(_, _, _, _, _)
\* The loop of cobs.encode; idx and start are the 0-based idx and
\* search_start_idx of the library.
CobsEncodeLoop(in, idx, start, final_zero, out) ==
    IF idx = Len(in)
    THEN IF idx # start \/ final_zero
         THEN out \o <<idx - start + 1>> \o SubSeq(in, start + 1, idx)
         ELSE out
    ELSE IF in[idx + 1] = 0
    THEN CobsEncodeLoop(in, idx + 1, idx + 1, TRUE,
                        out \o <<idx - start + 1>> \o SubSeq(in, start + 1, idx))
    ELSE IF idx - start = 253
    THEN CobsEncodeLoop(in, idx + 1, idx + 1, FALSE,
                        out \o <<255>> \o SubSeq(in, start + 1, idx + 1))
    ELSE CobsEncodeLoop(in, idx + 1, start, final_zero, out)

CobsEncode(in) == CobsEncodeLoop(in, 0, 0, TRUE, <<>>)

HasZero(s) == \E i \in 1..Len(s) : s[i] = 0

RECURSIVE CobsDecodeLoop(_, _, _)
\* The loop of cobs.decode; idx is the library's 0-based idx. The result is
\* [ok |-> TRUE, data |-> decoded] or [ok |-> FALSE] for cobs.DecodeError.
CobsDecodeLoop(in, idx, out) ==
    LET length == in[idx + 1]
        end    == idx + length
        copy   == SubSeq(in, idx + 2, IF end > Len(in) THEN Len(in) ELSE end)
    IN  IF length = 0 \/ HasZero(copy) THEN [ok |-> FALSE, data |-> <<>>]
        ELSE IF end > Len(in) THEN [ok |-> FALSE, data |-> <<>>]
        ELSE IF end < Len(in)
        THEN CobsDecodeLoop(in, end,
                            IF length < 255 THEN out \o copy \o <<0>>
                                            ELSE out \o copy)
        ELSE [ok |-> TRUE, data |-> out \o copy]

CobsDecode(in) ==
    IF in = <<>> THEN [ok |-> TRUE, data |-> <<>>]
    ELSE CobsDecodeLoop(in, 0, <<>>)

\* ------------------------------------------------- SerialInterface: framer

\* ByteLoop with the size check written >= : a frame of exactly
\* max_message_size bytes is thrown away.
RECURSIVE ByteLoop_ClearsAtLimit(_, _, _, _)
ByteLoop_ClearsAtLimit(st, data, i, max_message_size) ==
    IF i > Len(data) THEN st
    ELSE IF data[i] = 0
    THEN IF st.buffer # <<>>
         THEN ByteLoop_ClearsAtLimit([buffer |-> <<>>,
                  queue  |-> Append(st.queue, st.buffer),
                  enq    |-> Append(st.enq, st.buffer)],
                 data, i + 1, max_message_size)
         ELSE ByteLoop_ClearsAtLimit(st, data, i + 1, max_message_size)
    ELSE LET appended == Append(st.buffer, data[i])
         IN  IF Len(appended) >= max_message_size
             THEN ByteLoop_ClearsAtLimit([st EXCEPT !.buffer = <<>>], data, i + 1,
                     max_message_size)
             ELSE ByteLoop_ClearsAtLimit([st EXCEPT !.buffer = appended], data, i + 1,
                     max_message_size)

\* ByteLoop without the "if self.buffer" test: every delimiter enqueues.
RECURSIVE ByteLoop_NoEmptyTest(_, _, _, _)
ByteLoop_NoEmptyTest(st, data, i, max_message_size) ==
    IF i > Len(data) THEN st
    ELSE IF data[i] = 0
    THEN ByteLoop_NoEmptyTest([buffer |-> <<>>,
             queue  |-> Append(st.queue, st.buffer),
             enq    |-> Append(st.enq, st.buffer)],
            data, i + 1, max_message_size)
    ELSE LET appended == Append(st.buffer, data[i])
         IN  IF Len(appended) > max_message_size
             THEN ByteLoop_NoEmptyTest([st EXCEPT !.buffer = <<>>], data, i + 1,
                     max_message_size)
             ELSE ByteLoop_NoEmptyTest([st EXCEPT !.buffer = appended], data, i + 1,
                     max_message_size)

\* ByteLoop that keeps the byte which overflowed the accumulator.
RECURSIVE ByteLoop_KeepsOverflowByte(_, _, _, _)
ByteLoop_KeepsOverflowByte(st, data, i, max_message_size) ==
    IF i > Len(data) THEN st
    ELSE IF data[i] = 0
    THEN IF st.buffer # <<>>
         THEN ByteLoop_KeepsOverflowByte([buffer |-> <<>>,
                  queue  |-> Append(st.queue, st.buffer),
                  enq    |-> Append(st.enq, st.buffer)],
                 data, i + 1, max_message_size)
         ELSE ByteLoop_KeepsOverflowByte(st, data, i + 1, max_message_size)
    ELSE LET appended == Append(st.buffer, data[i])
         IN  IF Len(appended) > max_message_size
             THEN ByteLoop_KeepsOverflowByte([st EXCEPT !.buffer = <<data[i]>>], data, i + 1,
                     max_message_size)
             ELSE ByteLoop_KeepsOverflowByte([st EXCEPT !.buffer = appended], data, i + 1,
                     max_message_size)

RECURSIVE ByteLoop(_, _, _, _)
\* The byte loop of _handle_received_data from the i-th byte of data on.
\* st is [buffer, queue, enq]; enq logs what was put on the queue.
\* The state handed in is bound to its value (st) before the body reads it.
ByteLoop(st_in, data, i, max_message_size) ==
    CHOOSE result \in {
        IF i > Len(data) THEN st
        ELSE IF data[i] = 0
        THEN IF st.buffer # <<>>
             THEN ByteLoop([buffer |-> <<>>,
                      queue  |-> Append(st.queue, st.buffer),
                      enq    |-> Append(st.enq, st.buffer)],
                     data, i + 1, max_message_size)
             ELSE ByteLoop(st, data, i + 1, max_message_size)
        ELSE LET appended == Append(st.buffer, data[i])
             IN  IF Len(appended) > max_message_size
                 THEN ByteLoop([st EXCEPT !.buffer = <<>>], data, i + 1,
                         max_message_size)
                 ELSE ByteLoop([st EXCEPT !.buffer = appended], data, i + 1,
                         max_message_size)
        : st \in {st_in} } : TRUE

\* for byte in data: ...
FeedBytes(st, data, max_message_size) ==
    ByteLoop(st, data, 1, max_message_size)

\* The RTS check moved behind the byte loop.
RtsCheckLength_AfterLoop(buffer_at_entry, buffer_at_exit) == Len(buffer_at_exit)

\* The RTS check reading the accumulator one byte short.
RtsCheckLength_OffByOne(buffer_at_entry, buffer_at_exit) ==
    IF Len(buffer_at_entry) = 0 THEN 0 ELSE Len(buffer_at_entry) - 1

\* The accumulator length the RTS check reads: the check stands before the
\* byte loop, so it sees the accumulator as the call found it.
RtsCheckLength(buffer_at_entry, buffer_at_exit) == Len(buffer_at_entry)

\* The watermark check of _handle_received_data.
RtsUpdate(port, rts_now, length) ==
    IF port = "none" THEN rts_now
    ELSE IF length > BUFFER_HIGH_WATER THEN FALSE
    ELSE IF length < BUFFER_LOW_WATER THEN TRUE
    ELSE rts_now

\* _handle_received_data(data, max_message_size)
HandleReceivedData(data, max_message_size) ==
    LET st == FeedBytes([buffer |-> buffer, queue |-> message_queue,
                         enq |-> enq_log], data, max_message_size)
    IN  /\ bytes_received' = bytes_received + Len(data)
        /\ rts' = RtsUpdate(ser, rts, RtsCheckLength(buffer, st.buffer))
        /\ buffer' = st.buffer
        /\ message_queue' = st.queue
        /\ enq_log' = st.enq
        /\ rx_log' = rx_log \o data
        /\ last_call' = [op |-> "rx", data |-> data, entry_buf |-> buffer,
                         entry_rts |-> rts, outcome |-> "done"]

\* open(), the port opening: a port object exists, RTS asserted.
Open ==
    /\ ser = "none"
    /\ ser' = "open"
    /\ rts' = TRUE
    /\ last_call' = [op |-> "open", data |-> <<>>, entry_buf |-> buffer,
                     entry_rts |-> rts, outcome |-> "done"]
    /\ UNCHANGED <<stop_event, message_handler>>
    /\ UNCHANGED <<rxVars, procVars, txVars, latVars>>
    /\ UNCHANGED calcVars
    /\ UNCHANGED extVars

\* set_message_handler(handler), which connect_serial calls once open()
\* has succeeded.
SetMessageHandler(handler) ==
    /\ ser = "open"
    /\ message_handler # handler
    /\ message_handler' = handler
    /\ last_call' = [op |-> "set_handler", data |-> <<>>, entry_buf |-> buffer,
                     entry_rts |-> rts, outcome |-> "done"]
    /\ UNCHANGED <<ser, rts, stop_event>>
    /\ UNCHANGED <<rxVars, procVars, txVars, latVars>>
    /\ UNCHANGED calcVars
    /\ UNCHANGED extVars

\* A call of _handle_received_data once the workers have been started, with
\* any chunk: what the reader hands over, and the empty chunk the unit tests
\* hand over.
RxChunk ==
    \E data \in SeqsOf(RxBytes, 0, MaxChunk) :
        /\ ser = "open"
        /\ processing_thread # "unstarted"
        /\ Len(rx_log) + Len(data) <= MaxRxBytes
        /\ HandleReceivedData(data, MaxMessageSize)
        /\ UNCHANGED <<ser, stop_event, message_handler>>
        /\ UNCHANGED <<procVars, txVars, latVars>>
        /\ UNCHANGED calcVars
        /\ UNCHANGED extVars

\* ---------------------------------------------- SerialInterface: processor

\* A LIFO queue: get() returns the newest frame.
QueuePop_Newest(q) == [item |-> q[Len(q)], rest |-> SubSeq(q, 1, Len(q) - 1)]

\* message_queue.get(): the oldest frame, and the queue without it.
QueuePop(q) == [item |-> Head(q), rest |-> Tail(q)]

\* The try body of _process_complete_message up to the handler call: the
\* exception it raises ("none" when it reaches the handler), the command
\* and the decoded bytes.
Decoded(byte_string) ==
    LET d == CobsDecode(byte_string)
    IN  IF ~d.ok THEN [exc |-> "DecodeError", command |-> 0, data |-> <<>>]
        ELSE IF Len(d.data) < 2
        THEN [exc |-> "IndexError", command |-> 0, data |-> d.data]
        ELSE [exc |-> "none", command |-> CommandOf(d.data), data |-> d.data]

\* An except clause that catches IndexError only.
ExceptClause_IndexErrorOnly(exc) == exc = "IndexError"

\* except IndexError, cobs.DecodeError: both are caught and logged.
ExceptClause(exc) == exc \in {"IndexError", "DecodeError"}

\* int.from_bytes([decoded_data[3], decoded_data[4]], byteorder="big")
\* The counter taken one byte too early.
CounterOf_Shifted(decoded_data) == decoded_data[3] * 256 + decoded_data[4]

CounterOf(decoded_data) == decoded_data[4] * 256 + decoded_data[5]

NoLocal == [stage |-> "none", counter |-> 0, latency |-> 0]

\* The modes whose module configuration has a handler, and of those the
\* ones whose module is built by connect_serial.
HandlerModes == {"LATENCY", "COMMAND", "REGRESSION", "STATUS", "BAUD_SWEEP",
                 "STRESS"}

\* ApplicationManager.handle_message: the module of the active mode, if
\* there is one and its configuration has a handler.
AppRoute(mode, connected) ==
    IF connected /\ mode \in HandlerModes THEN mode ELSE "nothing"

\* The module a frame reaches through the registered handler: through
\* ApplicationManager.handle_message the module of the active mode; through
\* the lambda a module has registered, that module; any other handler is
\* its own target.
Route(handler, mode, connected) ==
    IF handler = "app" THEN AppRoute(mode, connected) ELSE handler

\* One turn of the loop of _process_messages with a frame on the queue:
\* get() and _process_complete_message(). With BaseTest.handle_message as
\* the handler, an ECHO frame long enough to carry a counter leaves the
\* thread inside the handler, before the lookup in latency_msg_sent; every
\* other frame is finished within the step.
ProcessMessages ==
    /\ processing_thread = "running"
    /\ ~stop_event
    /\ message_queue # <<>>
    /\ \E pop \in {QueuePop(message_queue)} :
       \E byte_string \in {pop.item} :
       \E m \in {Decoded(byte_string)} :
           /\ message_queue' = pop.rest
           /\ taken' = Append(taken, byte_string)
           /\ IF m.exc = "none"
              THEN /\ commands_received' =
                          [commands_received EXCEPT ![m.command] = @ + 1]
                   /\ handled' = IF message_handler = "none" THEN handled
                                 ELSE Append(handled,
                                             <<m.command, m.data, byte_string>>)
                   /\ IF /\ message_handler = "base_test"
                         /\ m.command = ECHO_COMMAND
                         /\ Len(m.data) >= 5
                      THEN /\ processing_thread' = "in_handler"
                           /\ handler_local' = [stage |-> "lookup",
                                                counter |-> CounterOf(m.data),
                                                latency |-> 0]
                      ELSE /\ processing_thread' = "running"
                           /\ handler_local' = handler_local
                   /\ last_call' = [op |-> "proc", data |-> byte_string,
                                    entry_buf |-> buffer, entry_rts |-> rts,
                                    outcome |-> IF message_handler = "none"
                                                THEN "no_handler"
                                                ELSE "dispatched"]
              ELSE /\ UNCHANGED <<commands_received, handled, handler_local>>
                   /\ processing_thread' = IF ExceptClause(m.exc)
                                           THEN "running" ELSE "terminated"
                   /\ last_call' = [op |-> "proc", data |-> byte_string,
                                    entry_buf |-> buffer, entry_rts |-> rts,
                                    outcome |-> IF ExceptClause(m.exc)
                                                THEN "skipped" ELSE "raised"]
    /\ UNCHANGED <<ser, rts, stop_event, message_handler, buffer,
                   bytes_received, rx_log, enq_log>>
    /\ UNCHANGED <<txVars, latency_msg_sent, latency_msg_received, now,
                   scenario, burst_result, device_pos, rx_wire>>
    /\ delivered' = IF /\ Decoded(QueuePop(message_queue).item).exc = "none"
                       /\ message_handler # "none"
                    THEN Append(delivered,
                                [mode |-> app.mode,
                                 connected |-> app.connected,
                                 to |-> Route(message_handler, app.mode,
                                              app.connected)])
                    ELSE delivered
    /\ UNCHANGED calcVars
    /\ UNCHANGED <<lifeVars, app>>

\* -------------------------------------------------- SerialInterface: write

\* write() without the stop-event test.
WriteAllowed_PortOnly(port, stop) == port # "none"

\* if self.ser: if not self.stop_event.is_set(): ...
WriteAllowed(port, stop) == port # "none" /\ ~stop

\* cobs.encode(data + checksum) + b"\x00"
Frame(data) == CobsEncode(data \o calculate_checksum(data)) \o <<0>>

\* write() with the command counted ahead of the stop-event test: a call
\* that is ignored because the stop event is set still counts its command.
Write_CountsBeforeStopTest(data, n) ==
    /\ writes_called' = writes_called + 1
    /\ IF ser # "none" /\ Len(data) >= 2
       THEN commands_sent' = [commands_sent EXCEPT ![CommandOf(data)] = @ + 1]
       ELSE commands_sent' = commands_sent
    /\ IF WriteAllowed(ser, stop_event)
       THEN /\ port_out' = Append(port_out, Frame(data))
            /\ bytes_sent' = bytes_sent + n
            /\ last_call' = [op |-> "write", data |-> data,
                             entry_buf |-> buffer, entry_rts |-> rts,
                             outcome |-> IF Len(data) >= 2 THEN "sent"
                                         ELSE "index_error"]
       ELSE /\ UNCHANGED <<port_out, bytes_sent>>
            /\ last_call' = [op |-> "write", data |-> data,
                             entry_buf |-> buffer, entry_rts |-> rts,
                             outcome |-> "ignored"]

\* write(data), the port's write() returning n. The frame is handed to the
\* port and bytes_sent updated before data[1] is read, so a payload shorter
\* than two bytes is sent and then logged as an IndexError.
Write(data, n) ==
    /\ writes_called' = writes_called + 1
    /\ IF WriteAllowed(ser, stop_event)
       THEN /\ port_out' = Append(port_out, Frame(data))
            /\ bytes_sent' = bytes_sent + n
            /\ IF Len(data) >= 2
               THEN commands_sent' =
                        [commands_sent EXCEPT ![CommandOf(data)] = @ + 1]
               ELSE commands_sent' = commands_sent
            /\ last_call' = [op |-> "write", data |-> data,
                             entry_buf |-> buffer, entry_rts |-> rts,
                             outcome |-> IF Len(data) >= 2 THEN "sent"
                                         ELSE "index_error"]
       ELSE /\ UNCHANGED <<port_out, bytes_sent, commands_sent>>
            /\ last_call' = [op |-> "write", data |-> data,
                             entry_buf |-> buffer, entry_rts |-> rts,
                             outcome |-> "ignored"]

\* What the port's write() may return for a message: with write_timeout = 0
\* it does not block and reports how many bytes the system took.
PortWriteResults(message) == 0..Len(message)

\* A call of write() with any payload.
WriteCall ==
    \E data \in SeqsOf(TxBytes, 0, MaxPayloadLen) :
        \E n \in PortWriteResults(Frame(data)) :
            /\ writes_called < MaxWrites
            /\ Write(data, n)
            /\ UNCHANGED <<ser, rts, stop_event, message_handler>>
            /\ UNCHANGED <<rxVars, procVars, latVars>>
            /\ UNCHANGED calcVars
            /\ UNCHANGED extVars

\* start_reading(): the stop event is cleared and both workers start.
\* connect_serial calls it after open() and set_message_handler().
StartReading ==
    /\ ser = "open"
    /\ message_handler # "none"
    /\ processing_thread = "unstarted"
    /\ read_thread = "unstarted"
    /\ closer.pc = "idle"
    /\ stop_event' = FALSE
    /\ read_thread' = "running"
    /\ processing_thread' = "running"
    /\ last_call' = [op |-> "start_reading", data |-> <<>>,
                     entry_buf |-> buffer, entry_rts |-> rts,
                     outcome |-> "done"]
    /\ UNCHANGED <<ser, rts, message_handler, commands_received, taken,
                   handled>>
    /\ UNCHANGED <<rxVars, txVars, latVars>>
    /\ UNCHANGED <<baudrate, closer>>
    /\ UNCHANGED calcVars
    /\ UNCHANGED appVars

\* ------------------------------- SerialInterface: close and set_baudrate

\* The threads that may call close(): the application's, or a worker.
Callers == {"main", "reader", "processor"}

\* No close() or set_baudrate() in progress; calls counts those made.
\* The old_ and _before fields keep what set_baudrate() found; rebound
\* tells that its caller has called set_message_handler since.
NoCloser == [pc |-> "idle", who |-> "main", op |-> "none", rate |-> 0,
             result |-> "none", old_reader |-> "none",
             old_processor |-> "none", old_handler |-> "none",
             taken_before |-> 0, handled_before |-> 0, rebound |-> FALSE,
             calls |-> 0]

\* No sweep in progress. kind is baud_rate_test or baud_flip, j the place
\* in baud_rates, calls the number of
\* close()/set_baudrate() calls made when the sweep is about to call
\* set_baudrate, output_data the rates of the records appended; skipped and
\* configured list the rates set_baudrate refused and accepted; written
\* tells that _write_output_to_file was called.
NoSweep == [pc |-> "idle", kind |-> "none", baud_rates |-> <<>>, j |-> 0,
            restore_baudrate |-> FALSE, original_baudrate |-> 0,
            output_data |-> <<>>, calls |-> 0, skipped |-> <<>>,
            configured |-> <<>>, written |-> FALSE]

\* set_baudrate() resets the registered handler.
HandlerAfterReplace_Lost(handler) == "none"

\* self.message_handler once set_baudrate() has replaced the workers: no
\* statement of set_baudrate assigns it.
HandlerAfterReplace(handler) == handler

\* close() joins every worker.
ShouldJoin_Always(who, worker) == TRUE

\* close() joins no worker.
ShouldJoin_Never(who, worker) == FALSE

\* close() joins a worker unless the calling thread is that worker.
ShouldJoin(who, worker) == who # worker

\* What a call that is over leaves in last_call.
Returned(op, outcome) ==
    [op |-> op, data |-> <<>>, entry_buf |-> buffer, entry_rts |-> rts,
     outcome |-> outcome]

\* close() is entered by thread who and sets the stop event. A worker can
\* be the caller only while it runs.
CloseEnter(who) ==
    /\ closer.pc = "idle"
    /\ who = "reader" => read_thread = "running"
    /\ who = "processor" => processing_thread = "running"
    /\ stop_event' = TRUE
    /\ closer' = [NoCloser EXCEPT !.pc = "join_reader", !.who = who,
                                  !.op = "close", !.calls = closer.calls + 1]
    /\ UNCHANGED <<ser, rts, message_handler, last_call, read_thread,
                   baudrate>>
    /\ UNCHANGED <<rxVars, procVars, txVars, latVars>>
    /\ UNCHANGED calcVars
    /\ UNCHANGED appVars

\* One of the calls of close() made in a run.
CloseCall(who) ==
    /\ closer.calls < MaxCalls
    /\ CloseEnter(who)

\* set_baudrate(rate) is entered by the application's thread and calls
\* close().
SetBaudrateEnter(rate) ==
    /\ closer.pc = "idle"
    /\ stop_event' = TRUE
    /\ closer' = [NoCloser EXCEPT !.pc = "join_reader", !.who = "main",
                                  !.op = "set_baudrate", !.rate = rate,
                                  !.calls = closer.calls + 1]
    /\ UNCHANGED <<ser, rts, message_handler, last_call, read_thread,
                   baudrate>>
    /\ UNCHANGED <<rxVars, procVars, txVars, latVars>>
    /\ UNCHANGED calcVars
    /\ UNCHANGED appVars

\* set_baudrate(rate), as often as a run of the lifecycle calls it.
SetBaudrateCall(rate) ==
    /\ closer.calls < MaxCalls
    /\ SetBaudrateEnter(rate)

\* self.read_thread.join(): skipped by the reader itself, a RuntimeError on
\* a thread that was never started, otherwise it waits for the reader.
CloseJoinReader ==
    /\ closer.pc = "join_reader"
    /\ IF ~ShouldJoin(closer.who, "reader")
       THEN /\ closer' = [closer EXCEPT !.pc = "join_processor"]
            /\ UNCHANGED last_call
       ELSE IF read_thread = "unstarted"
       THEN /\ closer' = [closer EXCEPT !.pc = "idle", !.result = "raised"]
            /\ last_call' = Returned(closer.op, "raised")
       ELSE /\ read_thread = "terminated"
            /\ closer' = [closer EXCEPT !.pc = "join_processor"]
            /\ UNCHANGED last_call
    /\ UNCHANGED <<ser, rts, stop_event, message_handler, read_thread,
                   baudrate>>
    /\ UNCHANGED <<rxVars, procVars, txVars, latVars>>
    /\ UNCHANGED calcVars
    /\ UNCHANGED appVars

\* self.processing_thread.join(), likewise.
CloseJoinProcessor ==
    /\ closer.pc = "join_processor"
    /\ IF ~ShouldJoin(closer.who, "processor")
       THEN /\ closer' = [closer EXCEPT !.pc = "close_port"]
            /\ UNCHANGED last_call
       ELSE IF processing_thread = "unstarted"
       THEN /\ closer' = [closer EXCEPT !.pc = "idle", !.result = "raised"]
            /\ last_call' = Returned(closer.op, "raised")
       ELSE /\ processing_thread = "terminated"
            /\ closer' = [closer EXCEPT !.pc = "close_port"]
            /\ UNCHANGED last_call
    /\ UNCHANGED <<ser, rts, stop_event, message_handler, read_thread,
                   baudrate>>
    /\ UNCHANGED <<rxVars, procVars, txVars, latVars>>
    /\ UNCHANGED calcVars
    /\ UNCHANGED appVars

\* The end of close(): the port object, if there is one, is closed; the
\* object stays in self.ser. close() returns; set_baudrate() goes on.
ClosePort ==
    /\ closer.pc = "close_port"
    /\ ser' = IF ser = "none" THEN "none" ELSE "closed"
    /\ IF closer.op = "close"
       THEN /\ closer' = [closer EXCEPT !.pc = "idle", !.result = "returned"]
            /\ last_call' = Returned("close", "returned")
       ELSE /\ closer' = [closer EXCEPT !.pc = "replace"]
            /\ UNCHANGED last_call
    /\ UNCHANGED <<rts, stop_event, message_handler, read_thread, baudrate>>
    /\ UNCHANGED <<rxVars, procVars, txVars, latVars>>
    /\ UNCHANGED calcVars
    /\ UNCHANGED appVars

\* set_baudrate(): the rate is stored, two new thread objects replace the
\* old ones and the accumulator is cleared.
SetBaudrateReplace ==
    /\ closer.pc = "replace"
    /\ baudrate' = closer.rate
    /\ read_thread' = "unstarted"
    /\ processing_thread' = "unstarted"
    /\ buffer' = <<>>
    /\ message_handler' = HandlerAfterReplace(message_handler)
    /\ closer' = [closer EXCEPT !.pc = "open", !.old_reader = read_thread,
                                !.old_processor = processing_thread,
                                !.old_handler = message_handler]
    /\ UNCHANGED <<ser, rts, stop_event, last_call, message_queue,
                   bytes_received, rx_log, enq_log, commands_received,
                   taken, handled>>
    /\ UNCHANGED <<txVars, latVars>>
    /\ UNCHANGED calcVars
    /\ UNCHANGED appVars

\* set_baudrate(): open() either gives a new open port with RTS asserted
\* and its input buffer reset, or fails, and set_baudrate returns False with
\* the workers not started.
SetBaudrateOpen ==
    /\ closer.pc = "open"
    /\ \E opened \in BOOLEAN :
          IF opened
          THEN /\ ser' = "open"
               /\ rts' = TRUE
               /\ rx_wire' = <<>>
               /\ closer' = [closer EXCEPT !.pc = "start"]
               /\ UNCHANGED last_call
          ELSE /\ closer' = [closer EXCEPT !.pc = "idle",
                                           !.result = "failed"]
               /\ last_call' = Returned("set_baudrate", "failed")
               /\ UNCHANGED <<ser, rts, rx_wire>>
    /\ UNCHANGED <<stop_event, message_handler, read_thread, baudrate>>
    /\ UNCHANGED <<rxVars, procVars, txVars>>
    /\ UNCHANGED <<latency_msg_sent, latency_msg_received, now,
                   handler_local, scenario, burst_result, device_pos>>
    /\ UNCHANGED calcVars
    /\ UNCHANGED appVars

\* set_baudrate(): start_reading() clears the stop event and starts the new
\* workers, and set_baudrate returns True.
SetBaudrateStart ==
    /\ closer.pc = "start"
    /\ stop_event' = FALSE
    /\ read_thread' = "running"
    /\ processing_thread' = "running"
    /\ closer' = [closer EXCEPT !.pc = "idle", !.result = "returned",
                                !.taken_before = Len(taken),
                                !.handled_before = Len(handled)]
    /\ last_call' = Returned("set_baudrate", "returned")
    /\ UNCHANGED <<ser, rts, message_handler, baudrate, commands_received,
                   taken, handled>>
    /\ UNCHANGED <<rxVars, txVars, latVars>>
    /\ UNCHANGED calcVars
    /\ UNCHANGED appVars

\* The reader's finally block leaves the stop event as it found it.
ReaderFinallyStop_Keeps(stop) == stop

\* The stop event after the finally block of _read_data: set.
ReaderFinallyStop(stop) == TRUE

\* Why the loop of _read_data ends: the stop event, no port object, or an
\* exception out of read().
ExitCauses == {"stop", "absent", "exception"}

\* The reader leaves its loop and runs its finally block: the stop event is
\* set and an open port closed. A reader inside close() is not in its loop.
ReaderExit ==
    /\ read_thread = "running"
    /\ ~(closer.pc # "idle" /\ closer.who = "reader")
    /\ \E cause \in ExitCauses :
          /\ cause = "stop" => stop_event
          /\ cause = "absent" => (~stop_event /\ ser = "none")
          /\ cause = "exception" => (~stop_event /\ ser = "open")
          /\ last_call' = [op |-> "reader_exit", data |-> <<>>,
                           entry_buf |-> buffer, entry_rts |-> rts,
                           outcome |-> cause]
    /\ stop_event' = ReaderFinallyStop(stop_event)
    /\ ser' = IF ser = "open" THEN "closed" ELSE ser
    /\ read_thread' = "terminated"
    /\ UNCHANGED <<rts, message_handler, baudrate, closer>>
    /\ UNCHANGED <<rxVars, procVars, txVars, latVars>>
    /\ UNCHANGED calcVars
    /\ UNCHANGED appVars

\* _read_data() run with no port object, as the unit test runs it on the
\* calling thread: the loop breaks at once and the finally block sets the
\* stop event.
ReadDataDisconnected ==
    /\ ser = "none"
    /\ read_thread = "unstarted"
    /\ ~stop_event
    /\ closer.pc = "idle"
    /\ stop_event' = ReaderFinallyStop(stop_event)
    /\ last_call' = [op |-> "reader_exit", data |-> <<>>,
                     entry_buf |-> buffer, entry_rts |-> rts,
                     outcome |-> "absent"]
    /\ UNCHANGED <<ser, rts, message_handler>>
    /\ UNCHANGED calcVars
    /\ UNCHANGED <<rxVars, procVars, txVars, latVars, lifeVars, appVars>>

\* The processor finds the stop event set at the top of its loop and ends.
\* A processor inside close() is not at the top of its loop.
ProcessorExit ==
    /\ processing_thread = "running"
    /\ stop_event
    /\ ~(closer.pc # "idle" /\ closer.who = "processor")
    /\ processing_thread' = "terminated"
    /\ UNCHANGED <<ser, rts, stop_event, message_handler, last_call,
                   commands_received, taken, handled>>
    /\ UNCHANGED calcVars
    /\ UNCHANGED <<rxVars, txVars, latVars, lifeVars, appVars>>

\* ------------------------------------------------ BaseTest: latency meter

\* An empty dict.
EmptyMap == [c \in {} |-> 0]

\* map[key] = value left undone.
MapPut_NotStored(map, key, value) == map

\* map[key] = value
MapPut(map, key, value) ==
    [k \in DOMAIN map \cup {key} |-> IF k = key THEN value ELSE map[k]]

\* The payload publish() builds: header, length field, counter (2 bytes,
\* big-endian) and a trailer of 0x02 bytes.
Payload(iteration_counter, message_length) ==
    LET trailer == [k \in 1..(message_length - 2 - 3) |-> 2]
    IN  <<0, 52>> \o <<Len(trailer) + 2>>
        \o <<iteration_counter \div 256, iteration_counter % 256>>
        \o trailer

\* _run_echo_burst is entered with cfg.num_messages = n.
StartBurst ==
    \E n \in 1..MaxMessages :
        /\ scenario.pc = "idle"
        /\ scenario.bursts < MaxBursts
        /\ ser = "open"
        /\ processing_thread # "unstarted"
        /\ scenario' = [scenario EXCEPT !.pc = "clear_sent", !.n = n, !.i = 0]
        /\ UNCHANGED <<ser, rts, stop_event, message_handler, last_call,
                       latency_msg_sent, latency_msg_received, now,
                       handler_local, burst_result, device_pos, rx_wire>>
        /\ UNCHANGED <<rxVars, procVars, txVars>>
        /\ UNCHANGED calcVars
        /\ UNCHANGED extVars

\* self.latency_msg_sent.clear()
ClearSent ==
    /\ scenario.pc = "clear_sent"
    /\ latency_msg_sent' = EmptyMap
    /\ scenario' = [scenario EXCEPT !.pc = "clear_received"]
    /\ UNCHANGED <<ser, rts, stop_event, message_handler, last_call,
                   latency_msg_received, now, handler_local, burst_result,
                   device_pos, rx_wire>>
    /\ UNCHANGED <<rxVars, procVars, txVars>>
    /\ UNCHANGED calcVars
    /\ UNCHANGED extVars

\* self.latency_msg_received.clear()
ClearReceived ==
    /\ scenario.pc = "clear_received"
    /\ latency_msg_received' = EmptyMap
    /\ scenario' = [scenario EXCEPT !.pc = "publish"]
    /\ UNCHANGED <<ser, rts, stop_event, message_handler, last_call,
                   latency_msg_sent, now, handler_local, burst_result,
                   device_pos, rx_wire>>
    /\ UNCHANGED <<rxVars, procVars, txVars>>
    /\ UNCHANGED calcVars
    /\ UNCHANGED extVars

\* publish(i, length), first half: the send time is recorded.
PublishStamp ==
    /\ scenario.pc = "publish"
    /\ scenario.i < scenario.n
    /\ latency_msg_sent' = MapPut(latency_msg_sent, scenario.i, now)
    /\ now' = now + 1
    /\ scenario' = [scenario EXCEPT !.pc = "write"]
    /\ UNCHANGED <<ser, rts, stop_event, message_handler, last_call,
                   latency_msg_received, handler_local, burst_result,
                   device_pos, rx_wire>>
    /\ UNCHANGED <<rxVars, procVars, txVars>>
    /\ UNCHANGED calcVars
    /\ UNCHANGED extVars

\* publish(i, length), second half: write(payload) and flush(); the port
\* takes the whole frame.
PublishWrite ==
    /\ scenario.pc = "write"
    /\ Write(Payload(scenario.i, MESSAGE_LENGTH),
             Len(Frame(Payload(scenario.i, MESSAGE_LENGTH))))
    /\ scenario' = [scenario EXCEPT
                       !.i = @ + 1,
                       !.pc = IF scenario.i + 1 < scenario.n
                              THEN "publish" ELSE "wait"]
    /\ UNCHANGED <<ser, rts, stop_event, message_handler, latency_msg_sent,
                   latency_msg_received, now, handler_local, burst_result,
                   device_pos, rx_wire>>
    /\ UNCHANGED <<rxVars, procVars>>
    /\ UNCHANGED calcVars
    /\ UNCHANGED extVars

\* The sleep for outstanding responses is over; the burst's result takes
\* messages_sent = len(latency_msg_sent) and messages_received =
\* len(latency_msg_received).
BurstResult ==
    /\ scenario.pc = "wait"
    /\ burst_result' = Append(burst_result,
           [messages_sent     |-> Cardinality(DOMAIN latency_msg_sent),
            messages_received |-> Cardinality(DOMAIN latency_msg_received)])
    /\ scenario' = [scenario EXCEPT !.pc = "idle", !.bursts = @ + 1]
    /\ UNCHANGED <<ser, rts, stop_event, message_handler, last_call,
                   latency_msg_sent, latency_msg_received, now,
                   handler_local, device_pos, rx_wire>>
    /\ UNCHANGED <<rxVars, procVars, txVars>>
    /\ UNCHANGED calcVars
    /\ UNCHANGED extVars

\* handle_message, ECHO branch, line 171: the lookup of the send time. A
\* counter that is not in latency_msg_sent raises KeyError, which the
\* handler catches: the response is ignored.
HandlerLookup ==
    /\ processing_thread = "in_handler"
    /\ handler_local.stage = "lookup"
    /\ IF handler_local.counter \in DOMAIN latency_msg_sent
       THEN /\ handler_local' =
                   [handler_local EXCEPT
                       !.stage = "store",
                       !.latency = now - latency_msg_sent[handler_local.counter]]
            /\ processing_thread' = "in_handler"
       ELSE /\ handler_local' = NoLocal
            /\ processing_thread' = "running"
    /\ UNCHANGED <<ser, rts, stop_event, message_handler, last_call,
                   latency_msg_sent, latency_msg_received, now, scenario,
                   burst_result, device_pos, rx_wire, commands_received,
                   taken, handled>>
    /\ UNCHANGED <<rxVars, txVars>>
    /\ UNCHANGED calcVars
    /\ UNCHANGED extVars

\* handle_message, ECHO branch, line 172: the latency is stored.
HandlerStore ==
    /\ processing_thread = "in_handler"
    /\ handler_local.stage = "store"
    /\ latency_msg_received' = MapPut(latency_msg_received,
                                      handler_local.counter,
                                      handler_local.latency)
    /\ handler_local' = NoLocal
    /\ processing_thread' = "running"
    /\ UNCHANGED <<ser, rts, stop_event, message_handler, last_call,
                   latency_msg_sent, now, scenario, burst_result, device_pos,
                   rx_wire, commands_received, taken, handled>>
    /\ UNCHANGED <<rxVars, txVars>>
    /\ UNCHANGED calcVars
    /\ UNCHANGED extVars

\* -------------------------------------------------- the device and reader

\* The device answers the next frame it was sent with the same frame.
DeviceEcho ==
    /\ device_pos < Len(port_out)
    /\ rx_wire' = rx_wire \o port_out[device_pos + 1]
    /\ device_pos' = device_pos + 1
    /\ UNCHANGED <<ser, rts, stop_event, message_handler, last_call,
                   latency_msg_sent, latency_msg_received, now,
                   handler_local, scenario, burst_result>>
    /\ UNCHANGED <<rxVars, procVars, txVars>>
    /\ UNCHANGED calcVars
    /\ UNCHANGED extVars

\* The device does not answer the next frame it was sent.
DeviceDrop ==
    /\ device_pos < Len(port_out)
    /\ device_pos' = device_pos + 1
    /\ UNCHANGED <<ser, rts, stop_event, message_handler, last_call,
                   latency_msg_sent, latency_msg_received, now,
                   handler_local, scenario, burst_result, rx_wire>>
    /\ UNCHANGED <<rxVars, procVars, txVars>>
    /\ UNCHANGED calcVars
    /\ UNCHANGED extVars

\* One turn of the loop of _read_data with bytes waiting: read() returns
\* everything the port holds and _handle_received_data frames it.
ReaderRead ==
    /\ ~stop_event
    /\ ser = "open"
    /\ read_thread = "running"
    /\ rx_wire # <<>>
    /\ HandleReceivedData(rx_wire, READ_MAX_MESSAGE_SIZE)
    /\ rx_wire' = <<>>
    /\ UNCHANGED <<ser, stop_event, message_handler, latency_msg_sent,
                   latency_msg_received, now, handler_local, scenario,
                   burst_result, device_pos>>
    /\ UNCHANGED <<procVars, txVars>>
    /\ UNCHANGED calcVars
    /\ UNCHANGED extVars

\* ------------------------------------------------- BaseTest: status maps

\* The slots of STATISTICS_ITEMS and TASK_ITEMS (the first of the 18 and of
\* the 10 the firmware has), and an index that is no slot.
STATISTICS_ITEMS == {0, 1}

TASK_ITEMS == {0}

StatusIndexes == STATISTICS_ITEMS \cup TASK_ITEMS \cup {255}

\* The values a status response carries.
StatusValues == {1, 2}

\* The three u32 fields of a task response.
TaskRecord(v) ==
    [absolute_time_us |-> v, percent_time |-> v, high_watermark |-> v]

NoStatusHandler ==
    [pc |-> "idle", kind |-> "none", index |-> 0, value |-> 0, now |-> 0,
     count |-> 0]

NoSnapshot ==
    [pc |-> "idle", snapshot_marker |-> 0,
     statistics |-> [idx \in STATISTICS_ITEMS |-> 0],
     tasks |-> [idx \in TASK_ITEMS |-> TaskRecord(0)],
     stats_received |-> 0, tasks_received |-> 0, complete |-> FALSE,
     calls |-> 0]

\* No response has stored anything: the slots hold what __init__ put there.
NoneStored ==
    [statistics |-> [idx \in STATISTICS_ITEMS |->
                         [value |-> 0, handled_at |-> 0]],
     task |-> [idx \in TASK_ITEMS |-> [value |-> 0, handled_at |-> 0]]]

\* A lock that anyone may take whoever holds it.
LockAvailable_Ignored(lock) == TRUE

\* with self._status_lock: the lock is taken when nobody holds it.
LockAvailable(lock) == lock = "free"

\* sum(1 for idx in items if updated_at[idx] >= snapshot_marker)
ReceivedCount(updated_at, marker) ==
    Cardinality({idx \in DOMAIN updated_at : updated_at[idx] >= marker})

\* time.perf_counter() moves on.
StatusTick ==
    /\ status_clock < MaxClock
    /\ status_clock' = status_clock + 1
    /\ UNCHANGED <<statistics_values, statistics_updated_at, task_values,
                   task_updated_at, status_lock, status_handler, snapshot>>
    /\ UNCHANGED <<ser, rts, stop_event, message_handler, last_call,
                   stored_by>>
    /\ UNCHANGED <<rxVars, procVars, txVars, latVars, extVars, calc, sweep,
                   test, counting>>

\* handle_message, a status branch up to the lock: the processor thread
\* hands over a response of the given kind; an index that is no slot is
\* ignored, otherwise now = time.perf_counter() is taken.
StatusHandlerStamp(kind, index, value) ==
    /\ status_handler.pc = "idle"
    /\ status_handler.count < MaxResponses
    /\ status_handler' =
           IF index \in (IF kind = "statistics" THEN DOMAIN statistics_values
                                                ELSE DOMAIN task_values)
           THEN [pc |-> "stamped", kind |-> kind, index |-> index,
                 value |-> value, now |-> status_clock,
                 count |-> status_handler.count + 1]
           ELSE [NoStatusHandler EXCEPT !.count = status_handler.count + 1]
    /\ UNCHANGED <<statistics_values, statistics_updated_at, task_values,
                   task_updated_at, status_lock, snapshot, status_clock>>
    /\ UNCHANGED <<ser, rts, stop_event, message_handler, last_call,
                   stored_by>>
    /\ UNCHANGED <<rxVars, procVars, txVars, latVars, extVars, calc, sweep,
                   test, counting>>

\* with self._status_lock: (the handler enters)
StatusHandlerAcquire ==
    /\ status_handler.pc = "stamped"
    /\ LockAvailable(status_lock)
    /\ status_lock' = "handler"
    /\ status_handler' = [status_handler EXCEPT !.pc = "locked"]
    /\ UNCHANGED <<statistics_values, statistics_updated_at, task_values,
                   task_updated_at, snapshot, status_clock>>
    /\ UNCHANGED <<ser, rts, stop_event, message_handler, last_call,
                   stored_by>>
    /\ UNCHANGED <<rxVars, procVars, txVars, latVars, extVars, calc, sweep,
                   test, counting>>

\* self._statistics_values[status_index] = status_value, or the same for
\* a task record.
StatusHandlerStoreValue ==
    /\ status_handler.pc = "locked"
    /\ IF status_handler.kind = "statistics"
       THEN /\ statistics_values' =
                   [statistics_values EXCEPT ![status_handler.index] =
                                                 status_handler.value]
            /\ task_values' = task_values
       ELSE /\ task_values' =
                   [task_values EXCEPT ![status_handler.index] =
                                           TaskRecord(status_handler.value)]
            /\ statistics_values' = statistics_values
    /\ status_handler' = [status_handler EXCEPT !.pc = "value_stored"]
    /\ stored_by' =
           [stored_by EXCEPT ![status_handler.kind][status_handler.index] =
               [value |-> status_handler.value,
                handled_at |-> status_handler.now]]
    /\ UNCHANGED <<statistics_updated_at, task_updated_at, status_lock,
                   snapshot, status_clock>>
    /\ UNCHANGED <<ser, rts, stop_event, message_handler, last_call>>
    /\ UNCHANGED <<rxVars, procVars, txVars, latVars, extVars, calc, sweep,
                   test, counting>>

\* self._statistics_updated_at[status_index] = now (or the task's), and
\* the with block ends.
StatusHandlerStoreTime ==
    /\ status_handler.pc = "value_stored"
    /\ IF status_handler.kind = "statistics"
       THEN /\ statistics_updated_at' =
                   [statistics_updated_at EXCEPT ![status_handler.index] =
                                                     status_handler.now]
            /\ task_updated_at' = task_updated_at
       ELSE /\ task_updated_at' =
                   [task_updated_at EXCEPT ![status_handler.index] =
                                               status_handler.now]
            /\ statistics_updated_at' = statistics_updated_at
    /\ status_lock' = "free"
    /\ status_handler' = [NoStatusHandler EXCEPT !.count = status_handler.count]
    /\ UNCHANGED <<statistics_values, task_values, snapshot, status_clock>>
    /\ UNCHANGED <<ser, rts, stop_event, message_handler, last_call,
                   stored_by>>
    /\ UNCHANGED <<rxVars, procVars, txVars, latVars, extVars, calc, sweep,
                   test, counting>>

\* _request_status_snapshot without a port: an empty, incomplete snapshot.
SnapshotNoPort ==
    /\ snapshot.pc = "idle"
    /\ ser = "none"
    /\ snapshot' = [NoSnapshot EXCEPT !.pc = "done",
                                      !.calls = snapshot.calls + 1]
    /\ UNCHANGED <<statistics_values, statistics_updated_at, task_values,
                   task_updated_at, status_lock, status_handler, status_clock>>
    /\ UNCHANGED <<ser, rts, stop_event, message_handler, last_call,
                   stored_by>>
    /\ UNCHANGED <<rxVars, procVars, txVars, latVars, extVars, calc, sweep,
                   test, counting>>

\* _request_status_snapshot with a port: snapshot_marker =
\* time.perf_counter(), then the requests go out.
SnapshotBegin ==
    /\ snapshot.pc = "idle"
    /\ ser # "none"
    /\ snapshot' = [NoSnapshot EXCEPT !.pc = "poll",
                                      !.snapshot_marker = status_clock,
                                      !.calls = snapshot.calls + 1]
    /\ UNCHANGED <<statistics_values, statistics_updated_at, task_values,
                   task_updated_at, status_lock, status_handler, status_clock>>
    /\ UNCHANGED <<ser, rts, stop_event, message_handler, last_call,
                   stored_by>>
    /\ UNCHANGED <<rxVars, procVars, txVars, latVars, extVars, calc, sweep,
                   test, counting>>

\* One turn of the polling loop: the counts are taken under the lock, and
\* the loop is left when both are full.
SnapshotPoll ==
    /\ snapshot.pc = "poll"
    /\ LockAvailable(status_lock)
    /\ LET stats_received == ReceivedCount(statistics_updated_at,
                                           snapshot.snapshot_marker)
           tasks_received == ReceivedCount(task_updated_at,
                                           snapshot.snapshot_marker)
       IN  snapshot' =
               [snapshot EXCEPT
                   !.stats_received = stats_received,
                   !.tasks_received = tasks_received,
                   !.pc = IF /\ stats_received = Cardinality(STATISTICS_ITEMS)
                             /\ tasks_received = Cardinality(TASK_ITEMS)
                          THEN "final" ELSE "poll"]
    /\ UNCHANGED <<statistics_values, statistics_updated_at, task_values,
                   task_updated_at, status_lock, status_handler, status_clock>>
    /\ UNCHANGED <<ser, rts, stop_event, message_handler, last_call,
                   stored_by>>
    /\ UNCHANGED <<rxVars, procVars, txVars, latVars, extVars, calc, sweep,
                   test, counting>>

\* while time.perf_counter() < deadline: the deadline has passed.
SnapshotDeadline ==
    /\ snapshot.pc = "poll"
    /\ snapshot' = [snapshot EXCEPT !.pc = "final"]
    /\ UNCHANGED <<statistics_values, statistics_updated_at, task_values,
                   task_updated_at, status_lock, status_handler, status_clock>>
    /\ UNCHANGED <<ser, rts, stop_event, message_handler, last_call,
                   stored_by>>
    /\ UNCHANGED <<rxVars, procVars, txVars, latVars, extVars, calc, sweep,
                   test, counting>>

\* with self._status_lock: (the final read enters)
SnapshotAcquire ==
    /\ snapshot.pc = "final"
    /\ LockAvailable(status_lock)
    /\ status_lock' = "snapshot"
    /\ snapshot' = [snapshot EXCEPT !.pc = "read_values"]
    /\ UNCHANGED <<statistics_values, statistics_updated_at, task_values,
                   task_updated_at, status_handler, status_clock>>
    /\ UNCHANGED <<ser, rts, stop_event, message_handler, last_call,
                   stored_by>>
    /\ UNCHANGED <<rxVars, procVars, txVars, latVars, extVars, calc, sweep,
                   test, counting>>

\* statistics = {...}; tasks = {...}
SnapshotReadValues ==
    /\ snapshot.pc = "read_values"
    /\ snapshot' = [snapshot EXCEPT !.statistics = statistics_values,
                                    !.tasks = task_values,
                                    !.pc = "read_counts"]
    /\ UNCHANGED <<statistics_values, statistics_updated_at, task_values,
                   task_updated_at, status_lock, status_handler, status_clock>>
    /\ UNCHANGED <<ser, rts, stop_event, message_handler, last_call,
                   stored_by>>
    /\ UNCHANGED <<rxVars, procVars, txVars, latVars, extVars, calc, sweep,
                   test, counting>>

\* stats_received = sum(...); tasks_received = sum(...)
SnapshotReadCounts ==
    /\ snapshot.pc = "read_counts"
    /\ snapshot' =
           [snapshot EXCEPT
               !.stats_received = ReceivedCount(statistics_updated_at,
                                                snapshot.snapshot_marker),
               !.tasks_received = ReceivedCount(task_updated_at,
                                                snapshot.snapshot_marker),
               !.pc = "release"]
    /\ UNCHANGED <<statistics_values, statistics_updated_at, task_values,
                   task_updated_at, status_lock, status_handler, status_clock>>
    /\ UNCHANGED <<ser, rts, stop_event, message_handler, last_call,
                   stored_by>>
    /\ UNCHANGED <<rxVars, procVars, txVars, latVars, extVars, calc, sweep,
                   test, counting>>

\* The with block ends and the snapshot is returned, complete when both
\* counts are full.
SnapshotReturn ==
    /\ snapshot.pc = "release"
    /\ status_lock' = "free"
    /\ snapshot' =
           [snapshot EXCEPT
               !.complete =
                   /\ snapshot.stats_received = Cardinality(STATISTICS_ITEMS)
                   /\ snapshot.tasks_received = Cardinality(TASK_ITEMS),
               !.pc = "done"]
    /\ UNCHANGED <<statistics_values, statistics_updated_at, task_values,
                   task_updated_at, status_handler, status_clock>>
    /\ UNCHANGED <<ser, rts, stop_event, message_handler, last_call,
                   stored_by>>
    /\ UNCHANGED <<rxVars, procVars, txVars, latVars, extVars, calc, sweep,
                   test, counting>>

\* ------------------------------------------- BaseTest: _calculate_status_delta

\* No calculation has been applied yet.
NoCalc == [op |-> "none"]

\* STATISTICS_ITEMS.values() and TASK_ITEMS.values(): the names of the
\* slots modelled, and the fields of a task record.
StatisticsName(idx) ==
    IF idx = 0 THEN "queue_send_error" ELSE "queue_receive_error"

TaskName(idx) == "cdc_task"

STATISTICS_NAMES == {StatisticsName(idx) : idx \in STATISTICS_ITEMS}

TASK_NAMES == {TaskName(idx) : idx \in TASK_ITEMS}

TaskFields == {"absolute_time_us", "percent_time", "high_watermark"}

\* d.get(key, default)
DictGet(d, key, default) == IF key \in DOMAIN d THEN d[key] ELSE default

\* The deltas of the slots that both snapshots hold, and nothing for a
\* slot missing from either.
calculate_status_delta_CommonKeys(before, after) ==
    [statistics |->
         [key \in (DOMAIN before.statistics \cap DOMAIN after.statistics)
                     \cap STATISTICS_NAMES |->
              after.statistics[key] - before.statistics[key]],
     tasks |->
         [task \in (DOMAIN before.tasks \cap DOMAIN after.tasks) |->
              [f \in DOMAIN before.tasks[task] \cap DOMAIN after.tasks[task] |->
                   after.tasks[task][f] - before.tasks[task][f]]]]

\* _calculate_status_delta(before, after)
calculate_status_delta(before, after) ==
    [statistics |->
         [key \in STATISTICS_NAMES |->
              DictGet(after.statistics, key, 0)
                  - DictGet(before.statistics, key, 0)],
     tasks |->
         [task \in TASK_NAMES |->
              LET before_task == DictGet(before.tasks, task, EmptyMap)
                  after_task  == DictGet(after.tasks, task, EmptyMap)
              IN  [absolute_time_us |->
                       DictGet(after_task, "absolute_time_us", 0)
                           - DictGet(before_task, "absolute_time_us", 0),
                   percent_time |->
                       DictGet(after_task, "percent_time", 0)
                           - DictGet(before_task, "percent_time", 0),
                   high_watermark |->
                       DictGet(after_task, "high_watermark", 0)
                           - DictGet(before_task, "high_watermark", 0)]]]

\* The "statistics" dicts handed in: any of the slot names may be missing,
\* and a key that is no slot name may be there.
StatisticsDicts ==
    LET named == UNION {[D -> 0..MaxCounter] : D \in SUBSET STATISTICS_NAMES}
    IN  named \cup {MapPut(d, "not_a_slot", 1) : d \in named}

\* The task records handed in: complete, without percent_time, or empty.
TaskRecords ==
    UNION {[D -> {0, 2}] :
               D \in {TaskFields, TaskFields \ {"percent_time"}, {}}}

\* The "tasks" dicts handed in: the task is there or missing.
TaskDicts == UNION {[D -> TaskRecords] : D \in SUBSET TASK_NAMES}

Snapshots == [statistics : StatisticsDicts, tasks : TaskDicts]

\* A call of _calculate_status_delta.
CalculateStatusDelta ==
    /\ calc = NoCalc
    /\ \E before \in Snapshots, after \in Snapshots :
           calc' = [op |-> "status_delta", before |-> before, after |-> after,
                    result |-> calculate_status_delta(before, after)]
    /\ UNCHANGED <<ser, rts, stop_event, message_handler, last_call>>
    /\ UNCHANGED <<rxVars, procVars, txVars, latVars, extVars, statusVars,
                   sweep, test, counting>>

\* ------------------------------------------ stress_evaluator: evaluate_verdict

\* A ratio or a float with two decimals is kept exact, as <<numerator,
\* denominator>> with a positive denominator.
RatioGreater_OrEqual(a, b) == a[1] * b[2] >= b[1] * a[2]

\* a > b
RatioGreater(a, b) == a[1] * b[2] > b[1] * a[2]

\* max(0, x)
Max0(x) == IF x > 0 THEN x ELSE 0

RECURSIVE InsertSorted(_, _)
InsertSorted(sorted_v, x) ==
    IF sorted_v = <<>> THEN <<x>>
    ELSE IF x <= Head(sorted_v) THEN <<x>> \o sorted_v
    ELSE <<Head(sorted_v)>> \o InsertSorted(Tail(sorted_v), x)

RECURSIVE Sorted(_)
\* sorted(values)
Sorted(values) ==
    IF values = <<>> THEN <<>>
    ELSE InsertSorted(Sorted(Tail(values)), Head(values))

\* The percentile taken as the value at the upper rank, without
\* interpolation.
percentile_UpperRank(values, pct) ==
    IF values = <<>> THEN <<0, 1>>
    ELSE LET sorted_v == Sorted(values)
             k100     == (Len(sorted_v) - 1) * pct
             hi       == (k100 + 99) \div 100
         IN  <<sorted_v[hi + 1], 1>>

\* _percentile(values, pct): k is kept as k100 = 100 * k.
percentile(values, pct) ==
    IF values = <<>> THEN <<0, 1>>
    ELSE LET sorted_v == Sorted(values)
             k100     == (Len(sorted_v) - 1) * pct
             lo       == k100 \div 100
             hi       == (k100 + 99) \div 100
         IN  IF lo = hi THEN <<sorted_v[lo + 1], 1>>
             ELSE <<sorted_v[lo + 1] * (100 * hi - k100)
                        + sorted_v[hi + 1] * (k100 - 100 * lo), 100>>

\* compute_latency_stats(latencies_ms): (p50, p95, p99)
compute_latency_stats(latencies_ms) ==
    <<percentile(latencies_ms, 50), percentile(latencies_ms, 95),
      percentile(latencies_ms, 99)>>

\* No error counter explains a drop.
ExplainedDrops_None(status_delta) == 0

\* The sum of the error counters that explain a drop after noise.
ExplainedDrops(status_delta) ==
    DictGet(status_delta, "cobs_decode_error", 0)
        + DictGet(status_delta, "msg_malformed_error", 0)
        + DictGet(status_delta, "checksum_error", 0)
        + DictGet(status_delta, "receive_buffer_overflow_error", 0)
        + DictGet(status_delta, "buffer_overflow_error", 0)

\* drop_ratio as evaluate_verdict computes it.
DropRatio(command_profile, messages_sent, messages_received, status_delta) ==
    LET dropped == Max0(messages_sent - messages_received)
    IN  IF command_profile = "noise_and_recovery"
        THEN LET unexplained_drops ==
                     Max0(dropped - ExplainedDrops(status_delta))
             IN  IF messages_sent > 0 THEN <<unexplained_drops, messages_sent>>
                 ELSE <<0, 1>>
        ELSE IF messages_sent > 0 THEN <<dropped, messages_sent>>
             ELSE <<0, 1>>

\* The order the keys of max_error_counter_deltas are gone through in.
CounterKeys == <<"checksum_error", "queue_send_error">>

\* evaluate_verdict(cfg, messages_sent, messages_received, latencies_ms,
\* status_delta): the verdict and the reasons, each reason by its kind.
evaluate_verdict(cfg, messages_sent, messages_received, latencies_ms, status_delta) ==
    LET thresholds == cfg.thresholds
        drop_ratio == DropRatio(cfg.command_profile, messages_sent,
                                messages_received, status_delta)
        drop_fail  == RatioGreater(drop_ratio, thresholds.max_echo_drop_ratio)
        Exceeded(key) ==
            /\ key \in DOMAIN thresholds.max_error_counter_deltas
            /\ DictGet(status_delta, key, 0)
                   > thresholds.max_error_counter_deltas[key]
        counters   == SelectSeq(CounterKeys, Exceeded)
        p95        == compute_latency_stats(latencies_ms)[2]
        is_warn    == RatioGreater(p95, <<thresholds.max_p95_latency_ms, 1>>)
        is_fail    == drop_fail \/ counters # <<>>
        reasons    == (IF drop_fail THEN <<"drop_ratio">> ELSE <<>>)
                          \o [i \in 1..Len(counters) |-> "counter"]
                          \o (IF is_warn THEN <<"P95">> ELSE <<>>)
    IN  IF is_fail THEN [verdict |-> "FAIL", reasons |-> reasons]
        ELSE IF is_warn THEN [verdict |-> "WARN", reasons |-> reasons]
        ELSE [verdict |-> "PASS", reasons |-> <<>>]

\* The arguments handed to evaluate_verdict: counts around the limit of
\* one in a thousand, limits of 0, 0.001 and 0.5, and latencies around the
\* two P95 limits.
CommandProfiles == {"echo_only", "noise_and_recovery"}

SentCounts == {0, 2, 1000}

ReceivedCounts == {0, 1, 999}

DropLimits == {<<0, 1>>, <<1, 1000>>, <<1, 2>>}

CounterLimitDicts ==
    {d \in UNION {[D -> {0, 1}] : D \in SUBSET {"checksum_error",
                                                 "queue_send_error"}} :
         "queue_send_error" \in DOMAIN d => d["queue_send_error"] = 1}

StatusDeltaDicts ==
    {d \in UNION {[D -> {0, 1, 2}] : D \in SUBSET {"checksum_error",
                                                    "queue_send_error"}} :
         "queue_send_error" \in DOMAIN d => d["queue_send_error"] = 2}

LatencyLists == SeqsOf({50, 200}, 0, MaxLatencies)

P95Limits == {50, 195}

\* A call of evaluate_verdict.
EvaluateVerdict ==
    /\ calc = NoCalc
    /\ \E command_profile \in CommandProfiles,
          messages_sent \in SentCounts,
          messages_received \in ReceivedCounts,
          max_echo_drop_ratio \in DropLimits,
          max_error_counter_deltas \in CounterLimitDicts,
          max_p95_latency_ms \in P95Limits,
          latencies_ms \in LatencyLists,
          status_delta \in StatusDeltaDicts :
           LET cfg == [command_profile |-> command_profile,
                       thresholds |->
                           [max_echo_drop_ratio |-> max_echo_drop_ratio,
                            max_error_counter_deltas |->
                                max_error_counter_deltas,
                            max_p95_latency_ms |-> max_p95_latency_ms]]
           IN  calc' = [op |-> "evaluate_verdict", cfg |-> cfg,
                        messages_sent |-> messages_sent,
                        messages_received |-> messages_received,
                        latencies_ms |-> latencies_ms,
                        status_delta |-> status_delta,
                        result |-> evaluate_verdict(cfg, messages_sent,
                                                    messages_received,
                                                    latencies_ms,
                                                    status_delta)]
    /\ UNCHANGED <<ser, rts, stop_event, message_handler, last_call>>
    /\ UNCHANGED <<rxVars, procVars, txVars, latVars, extVars, statusVars,
                   sweep, test, counting>>

\* ----------------------------------------------------------- specifications

\* The modes whose module needs no port (requires_serial=False):
\* initialize() registers them before it connects.
NonSerialModes == {"VISUALIZE"}

\* No += on a statistics counter in progress. Each thread keeps the value
\* it has loaded and what it is about to add; events counts what happened:
\* bytes handed to the framer, frames decoded, bytes and frames the port
\* took; overlapped tells that a thread loaded a counter while another
\* thread was between its load and its store.
NoCounting ==
    [reader |-> [pc |-> "idle", loaded |-> 0, amount |-> 0],
     processor |-> [pc |-> "idle", loaded |-> 0, command |-> 0],
     writer |-> [pc |-> "idle", loaded |-> 0, amount |-> 0, command |-> 0],
     events |-> [bytes_received |-> 0,
                 commands_received |-> [c \in 0..31 |-> 0],
                 bytes_sent |-> 0,
                 commands_sent |-> [c \in 0..31 |-> 0]],
     increments |-> 0,
     overlapped |-> FALSE]

\* No latency test in progress. j is the burst, waiting_time the pause
\* between its messages as a fraction, in_flight the echoes not yet in per
\* burst, latency_results the burst each stored latency belongs to,
\* output_data the records appended and file what was written; exception
\* is what left main_test; last_counter is the argument of the last
\* publish, arrivals counts the echoes, heard those of a burst that came in
\* before the end of its pause.
NoTest == [pc |-> "idle", num_times |-> 0, min_wait |-> 0, max_wait |-> 0,
          samples |-> 0, j |-> 0, waiting_time |-> <<0, 1>>,
          in_flight |-> EmptyMap, latency_results |-> <<>>,
          output_data |-> <<>>, written |-> FALSE, file |-> <<>>,
          exception |-> "none", last_counter |-> -1, arrivals |-> 0,
          heard |-> EmptyMap]

\* The state after SerialInterface.__init__ and BaseTest.__init__.
Init ==
    /\ ser = "none"
    /\ rts = FALSE
    /\ stop_event = FALSE
    /\ buffer = <<>>
    /\ message_queue = <<>>
    /\ message_handler = "none"
    /\ processing_thread = "unstarted"
    /\ bytes_received = 0
    /\ bytes_sent = 0
    /\ commands_sent = [c \in 0..31 |-> 0]
    /\ commands_received = [c \in 0..31 |-> 0]
    /\ port_out = <<>>
    /\ rx_log = <<>>
    /\ enq_log = <<>>
    /\ taken = <<>>
    /\ handled = <<>>
    /\ writes_called = 0
    /\ last_call = [op |-> "init", data |-> <<>>, entry_buf |-> <<>>,
                    entry_rts |-> FALSE, outcome |-> "done"]
    /\ latency_msg_sent = EmptyMap
    /\ latency_msg_received = EmptyMap
    /\ now = 0
    /\ handler_local = NoLocal
    /\ scenario = [pc |-> "idle", bursts |-> 0, n |-> 0, i |-> 0]
    /\ burst_result = <<>>
    /\ device_pos = 0
    /\ rx_wire = <<>>
    /\ read_thread = "unstarted"
    /\ baudrate = 0
    /\ closer = NoCloser
    /\ app = [mode |-> "IDLE", connected |-> FALSE, pc |-> "menu",
              selections |-> 0, modules |-> NonSerialModes,
              monitor |-> "idle", disconnects |-> 0]
    /\ delivered = <<>>
    /\ statistics_values = [idx \in STATISTICS_ITEMS |-> 0]
    /\ statistics_updated_at = [idx \in STATISTICS_ITEMS |-> 0]
    /\ task_values = [idx \in TASK_ITEMS |-> TaskRecord(0)]
    /\ task_updated_at = [idx \in TASK_ITEMS |-> 0]
    /\ status_lock = "free"
    /\ status_handler = NoStatusHandler
    /\ snapshot = NoSnapshot
    /\ status_clock = 1
    /\ stored_by = NoneStored
    /\ calc = NoCalc
    /\ sweep = NoSweep
    /\ test = NoTest
    /\ counting = NoCounting

\* The receive path: the port is opened, a recording handler registered,
\* the processor started, and chunks of bytes handed to the framer.
NextRx ==
    \/ Open
    \/ SetMessageHandler("stub")
    \/ StartReading
    \/ RxChunk
    \/ ProcessMessages

SpecRx == Init /\ [][NextRx]_vars

\* The send path: write() before the port is opened, while it is open, and
\* after close() has set the stop event. The workers were never started, so
\* close() ends in the RuntimeError of its first join and the port stays
\* open.
NextTx ==
    \/ Open
    \/ WriteCall
    \/ CloseCall("main")
    \/ CloseJoinReader

SpecTx == Init /\ [][NextTx]_vars

\* The latency meter: after the connect sequence the scenario thread runs
\* echo bursts while the device answers, the reader frames the answers and
\* the processor hands them to BaseTest.handle_message.
NextLatency ==
    \/ Open
    \/ SetMessageHandler("base_test")
    \/ StartReading
    \/ StartBurst
    \/ ClearSent
    \/ ClearReceived
    \/ PublishStamp
    \/ PublishWrite
    \/ BurstResult
    \/ DeviceEcho
    \/ DeviceDrop
    \/ ReaderRead
    \/ ProcessMessages
    \/ HandlerLookup
    \/ HandlerStore

SpecLatency == Init /\ [][NextLatency]_vars

\* The device sends a frame of its own accord: the frame of a well-formed
\* payload, its counter telling the frames apart.
DeviceSend ==
    /\ device_pos < MaxDeviceFrames
    /\ ser = "open"
    /\ rx_wire' = rx_wire \o Frame(Payload(device_pos, MESSAGE_LENGTH))
    /\ device_pos' = device_pos + 1
    /\ UNCHANGED <<ser, rts, stop_event, message_handler, last_call,
                   latency_msg_sent, latency_msg_received, now,
                   handler_local, scenario, burst_result>>
    /\ UNCHANGED calcVars
    /\ UNCHANGED <<rxVars, procVars, txVars, extVars>>

\* send_command(hex_data) with the bytes of a well-formed payload, which
\* the port takes whole.
SendCommand ==
    /\ writes_called < MaxWrites
    /\ LET payload == Payload(0, MESSAGE_LENGTH)
       IN  Write(payload, Len(Frame(payload)))
    /\ UNCHANGED <<ser, rts, stop_event, message_handler>>
    /\ UNCHANGED calcVars
    /\ UNCHANGED <<rxVars, procVars, latVars, extVars>>

\* The baud rates set_baudrate() is called with.
BaudRates == {9600, 115200}

\* The lifecycle: the connect sequence, then close() from any thread and
\* set_baudrate() from the application's thread, while the device sends,
\* the workers run and end, and commands are written.
NextLife ==
    \/ Open
    \/ SetMessageHandler("stub")
    \/ StartReading
    \/ \E who \in Callers : CloseCall(who)
    \/ \E rate \in BaudRates : SetBaudrateCall(rate)
    \/ CloseJoinReader
    \/ CloseJoinProcessor
    \/ ClosePort
    \/ SetBaudrateReplace
    \/ SetBaudrateOpen
    \/ SetBaudrateStart
    \/ ReaderExit
    \/ ReadDataDisconnected
    \/ ProcessorExit
    \/ DeviceSend
    \/ ReaderRead
    \/ ProcessMessages
    \/ SendCommand

SpecLife == Init /\ [][NextLife]_vars

\* The lifecycle with the scheduling the threads have: a processor that
\* finds the stop event set ends its loop, and a call of close() whose join
\* can return goes on.
FairSpecLife ==
    /\ SpecLife
    /\ WF_vars(ProcessorExit)
    /\ WF_vars(CloseJoinReader)
    /\ WF_vars(CloseJoinProcessor)
    /\ WF_vars(ClosePort)

\* ================================================= properties, receive path

\* The delimiter-terminated runs of non-delimiter bytes of a byte stream, in
\* order; cur is the run being read. Empty runs are left out.
RECURSIVE RunsOf(_, _)
RunsOf(stream, cur) ==
    IF stream = <<>> THEN <<>>
    ELSE IF Head(stream) = 0
    THEN (IF cur = <<>> THEN <<>> ELSE <<cur>>) \o RunsOf(Tail(stream), <<>>)
    ELSE RunsOf(Tail(stream), Append(cur, Head(stream)))

\* The bytes of a stream behind its last delimiter.
RECURSIVE OpenRun(_)
OpenRun(stream) ==
    IF stream = <<>> \/ stream[Len(stream)] = 0 THEN <<>>
    ELSE Append(OpenRun(SubSeq(stream, 1, Len(stream) - 1)),
                stream[Len(stream)])

\* C2: from an empty accumulator, a frame without a 0x00 byte and of at most
\* max_message_size bytes, followed by one delimiter and delivered in any
\* chunks, puts exactly that one frame on the queue and leaves the
\* accumulator empty.
C2_SplitFrameReassembled ==
    \A n \in 1..MaxMessageSize :
        ( /\ Len(rx_log) = n + 1
          /\ ~HasZero(SubSeq(rx_log, 1, n))
          /\ rx_log[n + 1] = 0 )
        => /\ enq_log = <<SubSeq(rx_log, 1, n)>>
           /\ taken \o message_queue = enq_log
           /\ buffer = <<>>

\* A frame of the largest size whose delimiter arrived in a chunk of its own.
C2_Witness ==
    /\ Len(rx_log) = MaxMessageSize + 1
    /\ ~HasZero(SubSeq(rx_log, 1, MaxMessageSize))
    /\ last_call.op = "rx"
    /\ last_call.data = <<0>>
    /\ Len(last_call.entry_buf) = MaxMessageSize
    /\ enq_log = <<SubSeq(rx_log, 1, MaxMessageSize)>>

\* C3: every frame ever put on the queue is non-empty, holds no 0x00 byte
\* and is at most max_message_size bytes long; a delimiter that finds the
\* accumulator empty enqueues nothing, so there are no more frames than
\* delimiters that directly follow a non-delimiter byte.
C3_QueuedFramesWellFormed ==
    /\ \A i \in 1..Len(enq_log) :
          /\ enq_log[i] # <<>>
          /\ ~HasZero(enq_log[i])
          /\ Len(enq_log[i]) <= MaxMessageSize
    /\ Len(enq_log) <=
          Cardinality({i \in 2..Len(rx_log) :
                          rx_log[i] = 0 /\ rx_log[i - 1] # 0})

\* A delimiter arrived at an empty accumulator, right behind a delimiter that
\* closed a frame.
C3_Witness ==
    /\ last_call.op = "rx"
    /\ last_call.entry_buf = <<>>
    /\ last_call.data = <<0>>
    /\ Len(rx_log) >= 3
    /\ rx_log[Len(rx_log) - 1] = 0
    /\ rx_log[Len(rx_log) - 2] # 0
    /\ Len(enq_log) = 1

FitsFrame(run) == Len(run) <= MaxMessageSize

\* C4 as claimed: nothing of an over-sized frame is ever enqueued, the queue
\* receives exactly the runs of at most max_message_size bytes.
C4_OversizedFrameDiscarded ==
    enq_log = SelectSeq(RunsOf(rx_log, <<>>), FitsFrame)

\* What the framer keeps of a run: the accumulator is cleared each time it
\* reaches max_message_size + 1 bytes, the bytes behind the last clear stay.
KeptOf(run) ==
    SubSeq(run, Len(run) - (Len(run) % (MaxMessageSize + 1)) + 1, Len(run))

RECURSIVE KeptFrames(_)
KeptFrames(runs) ==
    IF runs = <<>> THEN <<>>
    ELSE (IF KeptOf(Head(runs)) = <<>> THEN <<>> ELSE <<KeptOf(Head(runs))>>)
         \o KeptFrames(Tail(runs))

\* C4 as amended: when the bytes of one frame exceed max_message_size the
\* accumulator is cleared, which discards the max_message_size + 1 bytes
\* held at that moment; the bytes of the same frame that follow accumulate
\* again, and the next delimiter enqueues what has accumulated since the
\* last clear, if anything.
C4_OversizedPrefixDiscarded ==
    /\ enq_log = KeptFrames(RunsOf(rx_log, <<>>))
    /\ buffer = KeptOf(OpenRun(rx_log))

\* An over-sized run has been closed by its delimiter and its tail enqueued.
C4_Witness ==
    /\ rx_log # <<>>
    /\ rx_log[Len(rx_log)] = 0
    /\ \E i \in 1..Len(RunsOf(rx_log, <<>>)) :
          /\ Len(RunsOf(rx_log, <<>>)[i]) > MaxMessageSize
          /\ KeptOf(RunsOf(rx_log, <<>>)[i]) # <<>>
    /\ Len(enq_log) = 1
    /\ Len(enq_log[1]) = 1

\* C5 as claimed: when _handle_received_data returns, RTS follows the
\* accumulator length after the chunk.
C5_RtsFollowsLengthAfterChunk ==
    last_call.op = "rx" =>
        /\ Len(buffer) > BUFFER_HIGH_WATER => rts = FALSE
        /\ Len(buffer) < BUFFER_LOW_WATER => rts = TRUE
        /\ ( /\ Len(buffer) >= BUFFER_LOW_WATER
             /\ Len(buffer) <= BUFFER_HIGH_WATER ) => rts = last_call.entry_rts

\* C5 as amended: when _handle_received_data returns (port present), RTS is
\* deasserted if the accumulator length before the chunk was above
\* BUFFER_HIGH_WATER, asserted if it was below BUFFER_LOW_WATER, and has
\* otherwise the value it had before the call.
C5_RtsFollowsLengthBeforeChunk ==
    last_call.op = "rx" =>
        /\ Len(last_call.entry_buf) > BUFFER_HIGH_WATER => rts = FALSE
        /\ Len(last_call.entry_buf) < BUFFER_LOW_WATER => rts = TRUE
        /\ ( /\ Len(last_call.entry_buf) >= BUFFER_LOW_WATER
             /\ Len(last_call.entry_buf) <= BUFFER_HIGH_WATER )
           => rts = last_call.entry_rts

\* A call that found the accumulator between the watermarks and RTS
\* deasserted, and left RTS as it was.
C5_Witness ==
    /\ last_call.op = "rx"
    /\ Len(last_call.entry_buf) >= BUFFER_LOW_WATER
    /\ Len(last_call.entry_buf) <= BUFFER_HIGH_WATER
    /\ last_call.entry_rts = FALSE
    /\ last_call.data # <<>>
    /\ rts = FALSE

\* C6: the RTS decision of a call is taken from the accumulator as the call
\* finds it. With the accumulator above BUFFER_HIGH_WATER, a chunk of one
\* delimiter enqueues the accumulated frame, empties the accumulator and
\* leaves RTS deasserted; a later call that finds the accumulator empty,
\* even with an empty chunk, asserts RTS again.
C6_RtsDecidedAtEntry ==
    /\ ( /\ last_call.op = "rx"
         /\ Len(last_call.entry_buf) > BUFFER_HIGH_WATER
         /\ last_call.data = <<0>> )
       => /\ enq_log # <<>>
          /\ enq_log[Len(enq_log)] = last_call.entry_buf
          /\ buffer = <<>>
          /\ rts = FALSE
    /\ ( /\ last_call.op = "rx"
         /\ last_call.entry_buf = <<>>
         /\ last_call.data = <<>> )
       => rts = TRUE

\* The second call of the scenario: an empty chunk found the accumulator
\* empty and RTS deasserted, and asserted it.
C6_Witness ==
    /\ last_call.op = "rx"
    /\ last_call.entry_buf = <<>>
    /\ last_call.data = <<>>
    /\ last_call.entry_rts = FALSE
    /\ rts = TRUE
    /\ enq_log # <<>>
    /\ Len(enq_log[Len(enq_log)]) > BUFFER_HIGH_WATER

\* A frame that fails COBS decoding or decodes to fewer than two bytes.
BadFrame(byte_string) ==
    \/ ~CobsDecode(byte_string).ok
    \/ Len(CobsDecode(byte_string).data) < 2

\* C7: a frame taken from the queue never ends the processor; a frame that
\* fails to decode or decodes to fewer than two bytes is skipped, with no
\* handler call and commands_received unchanged, and a frame that does
\* decode is counted and handed to the handler, also after bad frames.
C7_BadFrameSkipped ==
    [][ taken' # taken =>
          /\ processing_thread' = "running"
          /\ taken' = Append(taken, Head(message_queue))
          /\ message_queue' = Tail(message_queue)
          /\ IF BadFrame(Head(message_queue))
             THEN /\ commands_received' = commands_received
                  /\ handled' = handled
             ELSE /\ Len(handled') = Len(handled) + 1
                  /\ handled'[Len(handled')][3] = Head(message_queue)
                  /\ commands_received'[handled'[Len(handled')][1]] =
                         commands_received[handled'[Len(handled')][1]] + 1
      ]_vars

\* A frame that failed to decode and one that decoded too short were taken,
\* and a frame taken after them has been dispatched.
C7_Witness ==
    /\ processing_thread = "running"
    /\ Len(taken) = 3
    /\ ~CobsDecode(taken[1]).ok
    /\ CobsDecode(taken[2]).ok
    /\ Len(CobsDecode(taken[2]).data) < 2
    /\ ~BadFrame(taken[3])
    /\ Len(handled) = 1
    /\ handled[1][3] = taken[3]
    /\ last_call.op = "proc"
    /\ last_call.outcome = "dispatched"

RawsOf(calls) == [i \in 1..Len(calls) |-> calls[i][3]]

Dispatchable(byte_string) == ~BadFrame(byte_string)

\* C8: the frames handed to the handler are, in the same order, the frames
\* whose delimiters the reader has consumed, less the ones that do not
\* decode: the processor takes frames in the order they were enqueued.
C8_DispatchInDelimiterOrder ==
    /\ taken \o message_queue = enq_log
    /\ RawsOf(handled) = SelectSeq(taken, Dispatchable)

\* Two different frames were enqueued while the processor was behind, and
\* both have been dispatched.
C8_Witness ==
    /\ Len(handled) = 2
    /\ handled[1][3] # handled[2][3]
    /\ Len(enq_log) = 2
    /\ \E i \in 1..Len(rx_log) - 1 : rx_log[i] = 0 /\ rx_log[i + 1] # 0

\* ==================================================== properties, send path

\* C9: write() called while the stop event is set, or while there is no
\* port object, hands nothing to the port, leaves bytes_sent and
\* commands_sent as they were and ends without an exception, whatever the
\* payload.
C9_BlockedWriteSendsNothing ==
    [][ (writes_called' # writes_called /\ (stop_event \/ ser = "none")) =>
          /\ port_out' = port_out
          /\ bytes_sent' = bytes_sent
          /\ commands_sent' = commands_sent
          /\ last_call'.op = "write"
          /\ last_call'.outcome = "ignored"
      ]_vars

\* close() had set the stop event, the port object still existed, and a
\* write() of a payload that would otherwise be sent was ignored.
C9_Witness ==
    /\ last_call.op = "write"
    /\ last_call.outcome = "ignored"
    /\ Len(last_call.data) >= 2
    /\ stop_event
    /\ ser = "open"
    /\ closer.calls > 0
    /\ writes_called = MaxWrites

RECURSIVE BitCount(_, _, _)
\* How many of the first n bytes of data have bit k set.
BitCount(data, n, k) ==
    IF n = 0 THEN 0
    ELSE ((data[n] \div (2 ^ k)) % 2) + BitCount(data, n - 1, k)

RECURSIVE ParityByte(_, _)
\* The byte whose bits 0..k are the parities of those bits over data.
ParityByte(data, k) ==
    IF k < 0 THEN 0
    ELSE (2 ^ k) * (BitCount(data, Len(data), k) % 2) + ParityByte(data, k - 1)

\* C10: for a payload p of two or more bytes that write() sends, the
\* message handed to the port ends in 0x00, holds no other 0x00 byte, and
\* without its last byte COBS-decodes to p followed by the XOR of the bytes
\* of p; each call hands the port at most one message.
C10_WriteFrameRoundTrip ==
    /\ Len(port_out) <= writes_called
    /\ ( /\ last_call.op = "write"
         /\ last_call.outcome # "ignored"
         /\ Len(last_call.data) >= 2 )
       => LET p == last_call.data
              message == port_out[Len(port_out)]
              body == SubSeq(message, 1, Len(message) - 1)
          IN  /\ message[Len(message)] = 0
              /\ ~HasZero(body)
              /\ CobsDecode(body) =
                     [ok |-> TRUE, data |-> p \o <<ParityByte(p, 7)>>]

\* A payload of non-zero bytes whose checksum is 0x00 was sent, so that the
\* encoder met a 0x00 byte, and the port took only part of the message.
C10_Witness ==
    /\ last_call.op = "write"
    /\ last_call.outcome = "sent"
    /\ Len(last_call.data) = MaxPayloadLen
    /\ ~HasZero(last_call.data)
    /\ ParityByte(last_call.data, 7) = 0
    /\ port_out # <<>>
    /\ bytes_sent < Len(port_out[Len(port_out)])

\* =============================================== properties, latency meter

\* C1: under every interleaving of the scenario thread with the processor
\* thread, the counters in latency_msg_received are counters of
\* latency_msg_sent (outside the two clear() calls of a burst's start,
\* which empty the maps one after the other), and no burst reports more
\* messages received than sent.
C1_ReceivedWithinSent ==
    /\ scenario.pc # "clear_received"
          => DOMAIN latency_msg_received \subseteq DOMAIN latency_msg_sent
    /\ \A b \in 1..Len(burst_result) :
          burst_result[b].messages_sent - burst_result[b].messages_received >= 0

\* --------------------------------------------- the echoing device, fairly

\* The device answers the two oldest frames it has not answered yet in the
\* opposite order.
DeviceEchoSwapped ==
    /\ device_pos + 2 <= Len(port_out)
    /\ rx_wire' = rx_wire \o port_out[device_pos + 2] \o port_out[device_pos + 1]
    /\ device_pos' = device_pos + 2
    /\ UNCHANGED <<ser, rts, stop_event, message_handler, last_call,
                   latency_msg_sent, latency_msg_received, now,
                   handler_local, scenario, burst_result>>
    /\ UNCHANGED calcVars
    /\ UNCHANGED <<rxVars, procVars, txVars, extVars>>

\* Nothing is on its way: the device has answered every frame written, and
\* every answer has been read, framed, taken from the queue and handled.
Quiescent ==
    /\ device_pos = Len(port_out)
    /\ rx_wire = <<>>
    /\ buffer = <<>>
    /\ message_queue = <<>>
    /\ processing_thread = "running"
    /\ handler_local = NoLocal

\* Echo bursts against a device that echoes every frame, in order or not;
\* a burst starts when the answers to the one before it are in.
NextEcho ==
    \/ Open
    \/ SetMessageHandler("base_test")
    \/ StartReading
    \/ (Quiescent /\ scenario.bursts < MaxEchoBursts /\ StartBurst)
    \/ ClearSent
    \/ ClearReceived
    \/ PublishStamp
    \/ PublishWrite
    \/ BurstResult
    \/ DeviceEcho
    \/ DeviceEchoSwapped
    \/ ReaderRead
    \/ ProcessMessages
    \/ HandlerLookup
    \/ HandlerStore

\* The device echoes, the reader reads what the port holds, and the
\* processor takes what the queue holds and finishes its handler: each is
\* a loop of its own thread, so each step that stays possible is taken.
FairSpecEcho ==
    /\ Init /\ [][NextEcho]_vars
    /\ WF_vars(DeviceEcho)
    /\ WF_vars(ReaderRead)
    /\ WF_vars(ProcessMessages)
    /\ WF_vars(HandlerLookup)
    /\ WF_vars(HandlerStore)

\* ------------------------------------------ the status snapshot, concurrently

\* A snapshot is requested while the processor thread hands status
\* responses, in any order and at any time, to handle_message.
NextStatus ==
    \/ Open
    \/ StatusTick
    \/ \E kind \in {"statistics", "task"}, index \in StatusIndexes,
         value \in StatusValues : StatusHandlerStamp(kind, index, value)
    \/ StatusHandlerAcquire
    \/ StatusHandlerStoreValue
    \/ StatusHandlerStoreTime
    \/ SnapshotNoPort
    \/ SnapshotBegin
    \/ SnapshotPoll
    \/ SnapshotDeadline
    \/ SnapshotAcquire
    \/ SnapshotReadValues
    \/ SnapshotReadCounts
    \/ SnapshotReturn

SpecStatus == Init /\ [][NextStatus]_vars

\* ----------------------------------------- stress_evaluator: aggregate_verdict

\* The verdict of the first scenario that did not pass.
aggregate_verdict_FirstNotPassed(scenario_results) ==
    LET others == SelectSeq(scenario_results, LAMBDA v : v # "PASS")
    IN  IF others = <<>> THEN "PASS" ELSE others[1]

\* aggregate_verdict(scenario_results); a result is kept as its verdict.
aggregate_verdict(scenario_results) ==
    LET verdicts == {scenario_results[i] : i \in DOMAIN scenario_results}
    IN  IF "FAIL" \in verdicts THEN "FAIL"
        ELSE IF "WARN" \in verdicts THEN "WARN"
        ELSE "PASS"

Verdicts == {"PASS", "WARN", "FAIL"}

\* A call of aggregate_verdict.
AggregateVerdict ==
    /\ calc = NoCalc
    /\ \E scenario_results \in SeqsOf(Verdicts, 0, MaxScenarios) :
           calc' = [op |-> "aggregate_verdict",
                    scenario_results |-> scenario_results,
                    result |-> aggregate_verdict(scenario_results)]
    /\ UNCHANGED <<ser, rts, stop_event, message_handler, last_call>>
    /\ UNCHANGED <<rxVars, procVars, txVars, latVars, extVars, statusVars,
                   sweep, test, counting>>

\* ------------------------------------------------------ the pure functions

\* _calculate_status_delta, evaluate_verdict or aggregate_verdict applied
\* once to arguments drawn from the sets above.
NextCalc ==
    \/ CalculateStatusDelta
    \/ EvaluateVerdict
    \/ AggregateVerdict

SpecCalc == Init /\ [][NextCalc]_vars

\* ------------------------------------------------------ ApplicationManager

\* The modes the menu offers here: one whose module only handles frames,
\* one without a handler, and the two whose run reconfigures the port.
AppModes == {"LATENCY", "VISUALIZE", "BAUD_SWEEP", "STRESS"}

\* The modes whose run calls set_baudrate(): the baud sweep, and the stress
\* test in its baud_flip scenario.
SweepModes == {"BAUD_SWEEP", "STRESS"}

\* The end of connect_serial() after start_reading(): the modules that need
\* the port are built and connected is set.
AppConnected ==
    /\ ~app.connected
    /\ message_handler = "app"
    /\ last_call.op = "start_reading"
    /\ app' = [app EXCEPT !.connected = TRUE,
                          !.modules = @ \cup (AppModes \ NonSerialModes)]
    /\ UNCHANGED <<ser, rts, stop_event, message_handler, last_call,
                   delivered>>
    /\ UNCHANGED calcVars
    /\ UNCHANGED <<rxVars, procVars, txVars, latVars, lifeVars>>

\* A menu action: if the mode has a module, the mode becomes the active one
\* and its runner starts.
MenuSelect(mode) ==
    /\ app.pc = "menu"
    /\ app.selections < MaxSelections
    /\ mode \in app.modules
    /\ app' = [app EXCEPT !.mode = mode,
                          !.pc = IF mode \in SweepModes THEN "sweep"
                                 ELSE "run",
                          !.selections = @ + 1]
    /\ UNCHANGED <<ser, rts, stop_event, message_handler, last_call,
                   delivered>>
    /\ UNCHANGED calcVars
    /\ UNCHANGED <<rxVars, procVars, txVars, latVars, lifeVars>>

\* Whether the running module has still to register its handler after a
\* set_baudrate() that succeeded.
RebindDue ==
    /\ closer.op = "set_baudrate"
    /\ closer.pc = "idle"
    /\ closer.result = "returned"
    /\ ~closer.rebound

\* The running module calls self.ser.set_baudrate(rate).
SweepSetBaudrate ==
    /\ app.pc = "sweep"
    /\ ~RebindDue
    /\ \E rate \in BaudRates : SetBaudrateCall(rate)

\* The running module registers its own handle_message after a
\* set_baudrate() that succeeded.
RunnerRebind ==
    /\ app.pc = "sweep"
    /\ RebindDue
    /\ message_handler' = app.mode
    /\ closer' = [closer EXCEPT !.rebound = TRUE]
    /\ last_call' = Returned("set_handler", "done")
    /\ UNCHANGED <<ser, rts, stop_event, read_thread, baudrate>>
    /\ UNCHANGED calcVars
    /\ UNCHANGED <<rxVars, procVars, txVars, latVars, appVars>>

\* The runner returns to the menu; the mode stays the active one.
RunnerReturn ==
    /\ app.pc \in {"run", "sweep"}
    /\ closer.pc = "idle"
    /\ ~RebindDue
    /\ app' = [app EXCEPT !.pc = "menu"]
    /\ UNCHANGED <<ser, rts, stop_event, message_handler, last_call,
                   delivered>>
    /\ UNCHANGED calcVars
    /\ UNCHANGED <<rxVars, procVars, txVars, latVars, lifeVars>>

\* The application: the connect sequence with
\* ApplicationManager.handle_message as the handler, then menu actions and
\* module runs while the device sends frames.
NextApp ==
    \/ Open
    \/ (message_handler = "none" /\ SetMessageHandler("app"))
    \/ StartReading
    \/ AppConnected
    \/ \E mode \in AppModes : MenuSelect(mode)
    \/ SweepSetBaudrate
    \/ CloseJoinReader
    \/ CloseJoinProcessor
    \/ ClosePort
    \/ SetBaudrateReplace
    \/ SetBaudrateOpen
    \/ SetBaudrateStart
    \/ RunnerRebind
    \/ RunnerReturn
    \/ ReaderExit
    \/ ProcessorExit
    \/ DeviceSend
    \/ ReaderRead
    \/ ProcessMessages

SpecApp == Init /\ [][NextApp]_vars

\* ===================================================== properties, lifecycle

\* C11: while close() joins and closes, the stop event is set; a close()
\* that returns to a thread other than the workers finds the reader and the
\* processor terminated and leaves the port closed; a close() that returns
\* to a worker has joined the other worker; and close() never joins the
\* thread that called it.
C11_CloseJoinsOthersThenCloses ==
    /\ (closer.op = "close" /\ closer.pc # "idle") => stop_event
    /\ ( /\ closer.op = "close"
         /\ closer.pc = "idle"
         /\ closer.result = "returned" )
       => /\ stop_event
          /\ ser # "open"
          /\ closer.who # "reader" => read_thread = "terminated"
          /\ closer.who # "processor" => processing_thread = "terminated"
    /\ ~( /\ closer.pc = "join_reader"
          /\ closer.who = "reader"
          /\ ShouldJoin(closer.who, "reader") )
    /\ ~( /\ closer.pc = "join_processor"
          /\ closer.who = "processor"
          /\ ShouldJoin(closer.who, "processor") )

\* close() called by the application's thread has returned after workers
\* that had handled a frame ended, and the port that was open is closed.
C11_Witness ==
    /\ closer.op = "close"
    /\ closer.who = "main"
    /\ closer.pc = "idle"
    /\ closer.result = "returned"
    /\ read_thread = "terminated"
    /\ processing_thread = "terminated"
    /\ ser = "closed"
    /\ handled # <<>>

C13_SetBaudrateRestartsClean ==
    [][ /\ (closer.pc = "open" /\ closer'.pc = "start")
           => /\ closer.old_reader = "terminated"
              /\ closer.old_processor = "terminated"
              /\ read_thread = "unstarted"
              /\ processing_thread = "unstarted"
        /\ (closer.pc = "start" /\ closer'.pc = "idle")
           => /\ last_call'.op = "set_baudrate"
              /\ last_call'.outcome = "returned"
              /\ baudrate' = closer.rate
              /\ buffer' = <<>>
              /\ ~stop_event'
              /\ ser' = "open"
              /\ rts' = TRUE
              /\ read_thread' = "running"
              /\ processing_thread' = "running"
      ]_vars

\* set_baudrate(9600) has returned True after workers that had handled a
\* frame were joined.
C13_Witness ==
    /\ closer.op = "set_baudrate"
    /\ closer.pc = "idle"
    /\ closer.result = "returned"
    /\ closer.old_reader = "terminated"
    /\ closer.handled_before > 0
    /\ baudrate = 9600
    /\ ser = "open"
    /\ rts
    /\ ~stop_event
    /\ read_thread = "running"
    /\ processing_thread = "running"

\* The frames among the first n taken that decode to two bytes or more.
RECURSIVE DispatchableCount(_, _)
DispatchableCount(frames, n) ==
    IF n = 0 THEN 0
    ELSE DispatchableCount(frames, n - 1)
         + (IF Dispatchable(frames[n]) THEN 1 ELSE 0)

C15_FramesReachActiveModule ==
    \A i \in 1..Len(delivered) :
        delivered[i].to =
            IF delivered[i].connected /\ delivered[i].mode \in HandlerModes
            THEN delivered[i].mode
            ELSE "nothing"

\* ================================================ properties, echo round trip

\* The counters a burst of n messages publishes.
CountersOf(n) == 0..(n - 1)

C17_SnapshotReadIsAtomic ==
    /\ [][ snapshot.pc \in {"read_values", "read_counts", "release"}
             => /\ statistics_values' = statistics_values
                /\ statistics_updated_at' = statistics_updated_at
                /\ task_values' = task_values
                /\ task_updated_at' = task_updated_at ]_vars
    /\ [][ (snapshot.pc = "release" /\ snapshot'.pc = "done")
             => /\ snapshot'.complete <=>
                       /\ \A idx \in STATISTICS_ITEMS :
                              statistics_updated_at[idx]
                                  >= snapshot.snapshot_marker
                       /\ \A idx \in TASK_ITEMS :
                              task_updated_at[idx] >= snapshot.snapshot_marker
                /\ snapshot'.statistics = statistics_values
                /\ snapshot'.tasks = task_values
                /\ snapshot'.complete =>
                       /\ \A idx \in STATISTICS_ITEMS :
                            /\ snapshot'.statistics[idx] =
                                   stored_by.statistics[idx].value
                            /\ stored_by.statistics[idx].handled_at
                                   >= snapshot.snapshot_marker
                       /\ \A idx \in TASK_ITEMS :
                            /\ snapshot'.tasks[idx] =
                                   TaskRecord(stored_by.task[idx].value)
                            /\ stored_by.task[idx].handled_at
                                   >= snapshot.snapshot_marker ]_vars

\* A complete snapshot was returned: the marker was taken after the clock
\* had moved, every slot was answered by one of the run's responses, and
\* the two statistics slots hold different values.
C17_Witness ==
    /\ snapshot.pc = "done"
    /\ snapshot.complete
    /\ snapshot.snapshot_marker > 1
    /\ snapshot.statistics[0] # snapshot.statistics[1]
    /\ status_handler.count = MaxResponses

\* ================================================ properties, pure functions

\* The value a dict holds for a key, 0 when the key is missing.
ValueOrZero(d, key) == IF key \in DOMAIN d THEN d[key] ELSE 0

\* The value of a field of a task in a "tasks" dict, 0 when the task or
\* the field is missing.
TaskValueOrZero(tasks, task, f) ==
    IF task \in DOMAIN tasks /\ f \in DOMAIN tasks[task] THEN tasks[task][f]
    ELSE 0

\* C18: _calculate_status_delta returns statistics deltas for exactly the
\* slot names of STATISTICS_ITEMS and task deltas for exactly those of
\* TASK_ITEMS, each with the three fields; every delta is after - before
\* with a missing key counted as 0; so when no counter of after is below
\* the one of before (a missing one being 0) no statistics delta is
\* negative.
C18_StatusDeltaIsDifference ==
    calc.op = "status_delta" =>
        LET before == calc.before
            after  == calc.after
            delta  == calc.result
        IN  /\ DOMAIN delta = {"statistics", "tasks"}
            /\ DOMAIN delta.statistics = STATISTICS_NAMES
            /\ DOMAIN delta.tasks = TASK_NAMES
            /\ \A key \in STATISTICS_NAMES :
                   delta.statistics[key] =
                       ValueOrZero(after.statistics, key)
                           - ValueOrZero(before.statistics, key)
            /\ \A task \in TASK_NAMES :
                   /\ DOMAIN delta.tasks[task] = TaskFields
                   /\ \A f \in TaskFields :
                          delta.tasks[task][f] =
                              TaskValueOrZero(after.tasks, task, f)
                                  - TaskValueOrZero(before.tasks, task, f)
            /\ (\A key \in STATISTICS_NAMES :
                    ValueOrZero(after.statistics, key)
                        >= ValueOrZero(before.statistics, key))
                   => \A key \in STATISTICS_NAMES : delta.statistics[key] >= 0

\* A delta was taken with a slot missing from before and there in after,
\* a key that is no slot name in after, a task field missing from before,
\* and no counter gone down: the missing ones counted as 0.
C18_Witness ==
    /\ calc.op = "status_delta"
    /\ "queue_send_error" \notin DOMAIN calc.before.statistics
    /\ "queue_send_error" \in DOMAIN calc.after.statistics
    /\ "not_a_slot" \in DOMAIN calc.after.statistics
    /\ calc.result.statistics["queue_send_error"] = MaxCounter
    /\ calc.result.statistics["queue_receive_error"] = 0
    /\ "cdc_task" \in DOMAIN calc.before.tasks
    /\ "cdc_task" \in DOMAIN calc.after.tasks
    /\ "percent_time" \notin DOMAIN calc.before.tasks["cdc_task"]
    /\ calc.result.tasks["cdc_task"]["percent_time"] = 2

\* The drops evaluate_verdict holds against the limit: those not received,
\* less, for noise_and_recovery, the ones the five error counters explain.
CountedDrops(c) ==
    LET dropped == IF c.messages_sent > c.messages_received
                   THEN c.messages_sent - c.messages_received ELSE 0
        explained ==
            ValueOrZero(c.status_delta, "cobs_decode_error")
                + ValueOrZero(c.status_delta, "msg_malformed_error")
                + ValueOrZero(c.status_delta, "checksum_error")
                + ValueOrZero(c.status_delta, "receive_buffer_overflow_error")
                + ValueOrZero(c.status_delta, "buffer_overflow_error")
    IN  IF c.cfg.command_profile # "noise_and_recovery" THEN dropped
        ELSE IF dropped > explained THEN dropped - explained ELSE 0

\* The drop ratio is strictly above max_echo_drop_ratio (never so when
\* nothing was sent: the ratio is 0 then).
DropRatioExceeded(c) ==
    /\ c.messages_sent > 0
    /\ CountedDrops(c) * c.cfg.thresholds.max_echo_drop_ratio[2]
           > c.cfg.thresholds.max_echo_drop_ratio[1] * c.messages_sent

\* Some counter with a limit has a delta strictly above its limit.
CounterExceeded(c) ==
    \E key \in DOMAIN c.cfg.thresholds.max_error_counter_deltas :
        ValueOrZero(c.status_delta, key)
            > c.cfg.thresholds.max_error_counter_deltas[key]

\* C19: evaluate_verdict returns FAIL exactly when the drop ratio is
\* strictly above max_echo_drop_ratio or the delta of some key of
\* max_error_counter_deltas (0 when status_delta has no such key) is
\* strictly above its limit; a value at its limit does not fail, and with
\* nothing sent the drop ratio is 0.
C19_FailIffLimitExceeded ==
    calc.op = "evaluate_verdict" =>
        /\ calc.result.verdict = "FAIL"
               <=> (DropRatioExceeded(calc) \/ CounterExceeded(calc))
        /\ (calc.messages_sent = 0 /\ ~CounterExceeded(calc))
               => calc.result.verdict # "FAIL"

\* 1000 sent and 999 received against a limit of 0.001, and a counter
\* delta of 1 against a limit of 1: both at their limits, and no FAIL.
C19_Witness ==
    /\ calc.op = "evaluate_verdict"
    /\ calc.cfg.command_profile = "echo_only"
    /\ calc.messages_sent = 1000
    /\ calc.messages_received = 999
    /\ calc.cfg.thresholds.max_echo_drop_ratio = <<1, 1000>>
    /\ "checksum_error" \in DOMAIN calc.cfg.thresholds.max_error_counter_deltas
    /\ calc.cfg.thresholds.max_error_counter_deltas["checksum_error"] = 1
    /\ "checksum_error" \in DOMAIN calc.status_delta
    /\ calc.status_delta["checksum_error"] = 1
    /\ calc.latencies_ms = <<>>
    /\ calc.result.verdict = "PASS"

\* The value of rank r (from 0) among the values of a list: as many are
\* below it as r at most, and more than r are not above it.
RankValue(values, r) ==
    CHOOSE v \in {values[i] : i \in DOMAIN values} :
        /\ Cardinality({i \in DOMAIN values : values[i] < v}) <= r
        /\ Cardinality({i \in DOMAIN values : values[i] <= v}) > r

\* A hundred times the P95 of a list under linear interpolation: rank
\* k = 0.95 (n - 1), the value at the rank below plus the fraction of the
\* step to the next; 0 for an empty list.
LinearP95Times100(values) ==
    IF values = <<>> THEN 0
    ELSE LET n      == Len(values)
             whole  == (95 * (n - 1)) \div 100
             frac   == (95 * (n - 1)) % 100
             below  == RankValue(values, whole)
             above  == RankValue(values,
                                 IF whole + 1 < n THEN whole + 1 ELSE whole)
         IN  100 * below + frac * (above - below)

\* C20: evaluate_verdict returns WARN exactly when no FAIL condition holds
\* and the linearly interpolated P95 of the latencies (0 for none) is
\* strictly above max_p95_latency_ms; with a FAIL condition the verdict is
\* FAIL whatever the P95; and the verdict is PASS exactly when the list of
\* reasons returned is empty.
C20_WarnIffP95AboveLimit ==
    calc.op = "evaluate_verdict" =>
        LET fail == DropRatioExceeded(calc) \/ CounterExceeded(calc)
            over == LinearP95Times100(calc.latencies_ms)
                        > 100 * calc.cfg.thresholds.max_p95_latency_ms
        IN  /\ calc.result.verdict = "WARN" <=> (~fail /\ over)
            /\ (fail /\ over) => calc.result.verdict = "FAIL"
            /\ calc.result.verdict = "PASS" <=> calc.result.reasons = <<>>

\* Latencies 200 and 50 against a limit of 195: the interpolated P95 is
\* 192.5, below the limit although the largest latency is above it; the
\* same latencies against a limit of 50 give WARN.
C20_Witness ==
    /\ calc.op = "evaluate_verdict"
    /\ calc.latencies_ms = <<200, 50>>
    /\ LinearP95Times100(calc.latencies_ms) = 19250
    /\ calc.cfg.thresholds.max_p95_latency_ms = 195
    /\ ~DropRatioExceeded(calc)
    /\ ~CounterExceeded(calc)
    /\ calc.result.verdict = "PASS"
    /\ calc.result.reasons = <<>>

\* The first reason evaluate_verdict returned is the one of the drop ratio.
DropRatioReason(c) ==
    c.result.reasons # <<>> /\ c.result.reasons[1] = "drop_ratio"

\* The messages sent and not received.
PlainDrops(c) ==
    IF c.messages_sent > c.messages_received
    THEN c.messages_sent - c.messages_received ELSE 0

\* E: the sum of the five error counter deltas that explain drops.
ExplainedSum(c) ==
    ValueOrZero(c.status_delta, "cobs_decode_error")
        + ValueOrZero(c.status_delta, "msg_malformed_error")
        + ValueOrZero(c.status_delta, "checksum_error")
        + ValueOrZero(c.status_delta, "receive_buffer_overflow_error")
        + ValueOrZero(c.status_delta, "buffer_overflow_error")

\* C21: with something sent, for noise_and_recovery the ratio held against
\* max_echo_drop_ratio is max(0, max(0, sent - received) - E) / sent, E
\* being the sum of the five error counter deltas; for every other profile
\* it is max(0, sent - received) / sent whatever the counters are.
C21_NoiseDropsLessExplained ==
    (calc.op = "evaluate_verdict" /\ calc.messages_sent > 0) =>
        LET limit == calc.cfg.thresholds.max_echo_drop_ratio
            unexplained == IF PlainDrops(calc) > ExplainedSum(calc)
                           THEN PlainDrops(calc) - ExplainedSum(calc) ELSE 0
        IN  /\ calc.cfg.command_profile = "noise_and_recovery"
                 => /\ DropRatio(calc.cfg.command_profile, calc.messages_sent,
                                 calc.messages_received, calc.status_delta)
                           = <<unexplained, calc.messages_sent>>
                    /\ DropRatioReason(calc)
                           <=> unexplained * limit[2]
                                   > limit[1] * calc.messages_sent
            /\ calc.cfg.command_profile # "noise_and_recovery"
                 => /\ DropRatio(calc.cfg.command_profile, calc.messages_sent,
                                 calc.messages_received, calc.status_delta)
                           = <<PlainDrops(calc), calc.messages_sent>>
                    /\ DropRatioReason(calc)
                           <=> PlainDrops(calc) * limit[2]
                                   > limit[1] * calc.messages_sent

\* After noise two of two messages were lost and checksum_error went up by
\* two: the drops are explained and a limit of 0 is kept.
C21_Witness ==
    /\ calc.op = "evaluate_verdict"
    /\ calc.cfg.command_profile = "noise_and_recovery"
    /\ calc.messages_sent = 2
    /\ calc.messages_received = 0
    /\ "checksum_error" \in DOMAIN calc.status_delta
    /\ calc.status_delta["checksum_error"] = 2
    /\ calc.cfg.thresholds.max_echo_drop_ratio = <<0, 1>>
    /\ ~DropRatioReason(calc)

\* The orders a list can be put in.
Reorderings(n) ==
    {q \in [1..n -> 1..n] : \A i \in 1..n : \E j \in 1..n : q[j] = i}

\* C22: aggregate_verdict returns FAIL when some result is FAIL, otherwise
\* WARN when some result is WARN, otherwise PASS, so PASS for no results;
\* and the same results in any other order give the same verdict.
C22_AggregateIsWorstVerdict ==
    calc.op = "aggregate_verdict" =>
        LET results == calc.scenario_results
            n       == Len(results)
            Some(v) == \E i \in 1..n : results[i] = v
        IN  /\ Some("FAIL") => calc.result = "FAIL"
            /\ (~Some("FAIL") /\ Some("WARN")) => calc.result = "WARN"
            /\ (~Some("FAIL") /\ ~Some("WARN")) => calc.result = "PASS"
            /\ \A q \in Reorderings(n) :
                   aggregate_verdict([i \in 1..n |-> results[q[i]]])
                       = calc.result

\* A WARN stands before a FAIL and a PASS, and the run fails.
C22_Witness ==
    /\ calc.op = "aggregate_verdict"
    /\ Len(calc.scenario_results) = MaxScenarios
    /\ calc.scenario_results[1] = "WARN"
    /\ calc.scenario_results[2] = "FAIL"
    /\ calc.scenario_results[MaxScenarios] = "PASS"
    /\ calc.result = "FAIL"

\* ------------------------------------------- BaudRateTest: the baud sweep

\* The lists of rates a sweep is run with; the rate the interface has may
\* be one of them.
BaudRateLists == SeqsOf(BaudRates \cup {baudrate}, 1, MaxRates)

\* The call of set_baudrate() the sweep made last is over, with outcome.
SetBaudrateOver(outcome) ==
    /\ closer.calls = sweep.calls + 1
    /\ closer.op = "set_baudrate"
    /\ closer.pc = "idle"
    /\ closer.result = outcome

\* baud_rate_test(baud_rates, ..., restore_baudrate) is entered on a
\* connected interface: output_data is empty and the rate of the interface
\* is kept as original_baudrate.
BaudRateTestBegin ==
    /\ sweep.pc = "idle"
    /\ test.pc = "idle"
    /\ closer.pc = "idle"
    /\ closer.calls = 0
    /\ last_call.op = "start_reading"
    /\ \E baud_rates \in BaudRateLists, restore_baudrate \in BOOLEAN :
          sweep' = [NoSweep EXCEPT !.pc = "iterate",
                                   !.kind = "baud_rate_test",
                                   !.baud_rates = baud_rates,
                                   !.j = 1,
                                   !.restore_baudrate = restore_baudrate,
                                   !.original_baudrate = baudrate]
    /\ UNCHANGED <<ser, rts, stop_event, message_handler, last_call>>
    /\ UNCHANGED <<rxVars, procVars, txVars, latVars, extVars, statusVars,
                   calc, test, counting>>

\* The head of the loop body: both latency maps are cleared and the status
\* snapshot taken, and set_baudrate(rate) is about to be called.
BaudRateTestIterate ==
    /\ sweep.pc = "iterate"
    /\ sweep.j <= Len(sweep.baud_rates)
    /\ latency_msg_sent' = EmptyMap
    /\ latency_msg_received' = EmptyMap
    /\ sweep' = [sweep EXCEPT !.pc = "set_baudrate", !.calls = closer.calls]
    /\ UNCHANGED <<ser, rts, stop_event, message_handler, last_call>>
    /\ UNCHANGED <<now, handler_local, scenario, burst_result, device_pos,
                   rx_wire>>
    /\ UNCHANGED <<rxVars, procVars, txVars, extVars, statusVars, calc,
                   test, counting>>

\* self.ser.set_baudrate(rate) is called with the rate of this iteration.
BaudRateTestSetBaudrate ==
    /\ sweep.pc = "set_baudrate"
    /\ closer.calls = sweep.calls
    /\ SetBaudrateEnter(sweep.baud_rates[sweep.j])

\* set_baudrate returned False: the rate is skipped, nothing is appended.
BaudRateTestSkip ==
    /\ sweep.pc = "set_baudrate"
    /\ SetBaudrateOver("failed")
    /\ sweep' = [sweep EXCEPT !.pc = "iterate", !.j = @ + 1,
                              !.skipped = Append(@, sweep.baud_rates[sweep.j])]
    /\ UNCHANGED <<ser, rts, stop_event, message_handler, last_call>>
    /\ UNCHANGED <<rxVars, procVars, txVars, latVars, extVars, statusVars,
                   calc, test, counting>>

\* set_baudrate, in the loop or in the restore, raised: nothing in
\* baud_rate_test or execute_baud_test catches a RuntimeError, so the sweep
\* is left at once, before _write_output_to_file.
BaudRateTestRaise ==
    /\ sweep.pc \in {"set_baudrate", "restore"}
    /\ SetBaudrateOver("raised")
    /\ sweep' = [sweep EXCEPT !.pc = "raised"]
    /\ UNCHANGED <<ser, rts, stop_event, message_handler, last_call>>
    /\ UNCHANGED <<rxVars, procVars, txVars, latVars, extVars, statusVars,
                   calc, test, counting>>

\* set_baudrate returned True: the sweep registers its handle_message.
BaudRateTestRebind ==
    /\ sweep.pc = "set_baudrate"
    /\ SetBaudrateOver("returned")
    /\ message_handler' = "BAUD_SWEEP"
    /\ closer' = [closer EXCEPT !.rebound = TRUE]
    /\ last_call' = Returned("set_handler", "done")
    /\ sweep' = [sweep EXCEPT !.pc = "burst",
                              !.configured =
                                  Append(@, sweep.baud_rates[sweep.j])]
    /\ UNCHANGED <<ser, rts, stop_event, read_thread, baudrate>>
    /\ UNCHANGED <<rxVars, procVars, txVars, latVars, appVars, statusVars,
                   calc, test, counting>>

\* The burst at this rate, the pause and the second snapshot are over: the
\* record of the rate is appended to output_data.
BaudRateTestRecord ==
    /\ sweep.pc = "burst"
    /\ sweep' = [sweep EXCEPT !.pc = "iterate", !.j = @ + 1,
                              !.output_data =
                                  Append(@, sweep.baud_rates[sweep.j])]
    /\ UNCHANGED <<ser, rts, stop_event, message_handler, last_call>>
    /\ UNCHANGED <<rxVars, procVars, txVars, latVars, extVars, statusVars,
                   calc, test, counting>>

\* The loop is over: the restore follows if restore_baudrate is set,
\* otherwise the output is written.
BaudRateTestLoopEnd ==
    /\ sweep.pc = "iterate"
    /\ sweep.j > Len(sweep.baud_rates)
    /\ sweep' = [sweep EXCEPT !.pc = IF sweep.restore_baudrate
                                     THEN "restore" ELSE "write",
                              !.calls = closer.calls]
    /\ UNCHANGED <<ser, rts, stop_event, message_handler, last_call>>
    /\ UNCHANGED <<rxVars, procVars, txVars, latVars, extVars, statusVars,
                   calc, test, counting>>

\* self.ser.set_baudrate(original_baudrate).
BaudRateTestRestore ==
    /\ sweep.pc = "restore"
    /\ closer.calls = sweep.calls
    /\ SetBaudrateEnter(sweep.original_baudrate)

\* The restore's set_baudrate returned, True or False: its result is not
\* looked at and the sweep registers its handle_message.
BaudRateTestRestoreRebind ==
    /\ sweep.pc = "restore"
    /\ SetBaudrateOver("returned") \/ SetBaudrateOver("failed")
    /\ message_handler' = "BAUD_SWEEP"
    /\ closer' = [closer EXCEPT !.rebound = TRUE]
    /\ last_call' = Returned("set_handler", "done")
    /\ sweep' = [sweep EXCEPT !.pc = "write"]
    /\ UNCHANGED <<ser, rts, stop_event, read_thread, baudrate>>
    /\ UNCHANGED <<rxVars, procVars, txVars, latVars, appVars, statusVars,
                   calc, test, counting>>

\* self._write_output_to_file(file_path, output_data), the last statement.
BaudRateTestWrite ==
    /\ sweep.pc = "write"
    /\ sweep' = [sweep EXCEPT !.pc = "done", !.written = TRUE]
    /\ UNCHANGED <<ser, rts, stop_event, message_handler, last_call>>
    /\ UNCHANGED <<rxVars, procVars, txVars, latVars, extVars, statusVars,
                   calc, test, counting>>

\* _run_baud_flip(cfg) is entered on a connected interface: the rate of the
\* interface is kept as original_baud, the rates are cfg.baud_rates or, if
\* there are none, the original rate alone, and the first snapshot is taken.
BaudFlipBegin ==
    /\ sweep.pc = "idle"
    /\ test.pc = "idle"
    /\ closer.pc = "idle"
    /\ closer.calls = 0
    /\ last_call.op = "start_reading"
    /\ \E cfg_baud_rates \in BaudRateLists \cup {<<>>} :
          sweep' = [NoSweep EXCEPT !.pc = "flip",
                                   !.kind = "baud_flip",
                                   !.baud_rates = IF cfg_baud_rates # <<>>
                                                  THEN cfg_baud_rates
                                                  ELSE <<baudrate>>,
                                   !.j = 1,
                                   !.original_baudrate = baudrate]
    /\ UNCHANGED <<ser, rts, stop_event, message_handler, last_call>>
    /\ UNCHANGED <<rxVars, procVars, txVars, latVars, extVars, statusVars,
                   calc, test, counting>>

\* self.ser.set_baudrate(baud) is called with the next rate of the list.
BaudFlipSetBaudrate ==
    /\ sweep.pc = "flip"
    /\ sweep.j <= Len(sweep.baud_rates)
    /\ closer.calls = sweep.calls
    /\ SetBaudrateEnter(sweep.baud_rates[sweep.j])

\* set_baudrate returned False: the rate is skipped.
BaudFlipSkip ==
    /\ sweep.pc = "flip"
    /\ SetBaudrateOver("failed")
    /\ sweep' = [sweep EXCEPT !.j = @ + 1, !.calls = closer.calls,
                              !.skipped = Append(@, sweep.baud_rates[sweep.j])]
    /\ UNCHANGED <<ser, rts, stop_event, message_handler, last_call>>
    /\ UNCHANGED <<rxVars, procVars, txVars, latVars, extVars, statusVars,
                   calc, test, counting>>

\* set_baudrate, in the loop or in the restore, raised: _run_baud_flip,
\* _run_scenario and execute_test catch nothing here.
BaudFlipRaise ==
    /\ sweep.pc \in {"flip", "flip_restore"}
    /\ SetBaudrateOver("raised")
    /\ sweep' = [sweep EXCEPT !.pc = "raised"]
    /\ UNCHANGED <<ser, rts, stop_event, message_handler, last_call>>
    /\ UNCHANGED <<rxVars, procVars, txVars, latVars, extVars, statusVars,
                   calc, test, counting>>

\* set_baudrate returned True: the scenario registers its handle_message
\* and clears both latency maps.
BaudFlipRebind ==
    /\ sweep.pc = "flip"
    /\ SetBaudrateOver("returned")
    /\ message_handler' = "STRESS"
    /\ closer' = [closer EXCEPT !.rebound = TRUE]
    /\ last_call' = Returned("set_handler", "done")
    /\ latency_msg_sent' = EmptyMap
    /\ latency_msg_received' = EmptyMap
    /\ sweep' = [sweep EXCEPT !.pc = "flip_burst",
                              !.configured =
                                  Append(@, sweep.baud_rates[sweep.j])]
    /\ UNCHANGED <<ser, rts, stop_event, read_thread, baudrate>>
    /\ UNCHANGED <<now, handler_local, scenario, burst_result, device_pos,
                   rx_wire>>
    /\ UNCHANGED <<rxVars, procVars, txVars, appVars, statusVars, calc,
                   test, counting>>

\* The messages at this rate are published and counted into the totals.
BaudFlipBurst ==
    /\ sweep.pc = "flip_burst"
    /\ sweep' = [sweep EXCEPT !.pc = "flip", !.j = @ + 1,
                              !.calls = closer.calls,
                              !.output_data =
                                  Append(@, sweep.baud_rates[sweep.j])]
    /\ UNCHANGED <<ser, rts, stop_event, message_handler, last_call>>
    /\ UNCHANGED <<rxVars, procVars, txVars, latVars, extVars, statusVars,
                   calc, test, counting>>

\* The loop is over: the restore follows if self.ser.baudrate differs
\* from original_baud.
BaudFlipLoopEnd ==
    /\ sweep.pc = "flip"
    /\ sweep.j > Len(sweep.baud_rates)
    /\ sweep' = [sweep EXCEPT !.pc = IF baudrate # sweep.original_baudrate
                                     THEN "flip_restore" ELSE "flip_result"]
    /\ UNCHANGED <<ser, rts, stop_event, message_handler, last_call>>
    /\ UNCHANGED <<rxVars, procVars, txVars, latVars, extVars, statusVars,
                   calc, test, counting>>

\* self.ser.set_baudrate(original_baud).
BaudFlipRestore ==
    /\ sweep.pc = "flip_restore"
    /\ closer.calls = sweep.calls
    /\ SetBaudrateEnter(sweep.original_baudrate)

\* The restore's set_baudrate returned, True or False: the scenario
\* registers its handle_message.
BaudFlipRestoreRebind ==
    /\ sweep.pc = "flip_restore"
    /\ SetBaudrateOver("returned") \/ SetBaudrateOver("failed")
    /\ message_handler' = "STRESS"
    /\ closer' = [closer EXCEPT !.rebound = TRUE]
    /\ last_call' = Returned("set_handler", "done")
    /\ sweep' = [sweep EXCEPT !.pc = "flip_result"]
    /\ UNCHANGED <<ser, rts, stop_event, read_thread, baudrate>>
    /\ UNCHANGED <<rxVars, procVars, txVars, latVars, appVars, statusVars,
                   calc, test, counting>>

\* The second snapshot is taken and the ScenarioResult returned.
BaudFlipReturn ==
    /\ sweep.pc = "flip_result"
    /\ sweep' = [sweep EXCEPT !.pc = "done"]
    /\ UNCHANGED <<ser, rts, stop_event, message_handler, last_call>>
    /\ UNCHANGED <<rxVars, procVars, txVars, latVars, extVars, statusVars,
                   calc, test, counting>>

\* KeyboardInterrupt while the sweep waits: execute_baud_test catches it,
\* logs and returns; the output was not written.
BaudRateTestInterrupt ==
    /\ sweep.kind = "baud_rate_test"
    /\ sweep.pc \in {"iterate", "burst", "write"}
    /\ closer.pc = "idle"
    /\ sweep' = [sweep EXCEPT !.pc = "interrupted"]
    /\ UNCHANGED <<ser, rts, stop_event, message_handler, last_call>>
    /\ UNCHANGED <<rxVars, procVars, txVars, latVars, extVars, statusVars,
                   calc, test, counting>>

\* KeyboardInterrupt while the scenario waits: nothing from _run_baud_flip
\* up to execute_test catches it, and it reaches ApplicationManager.run.
BaudFlipInterrupt ==
    /\ sweep.kind = "baud_flip"
    /\ sweep.pc \in {"flip", "flip_burst", "flip_result"}
    /\ closer.pc = "idle"
    /\ sweep' = [sweep EXCEPT !.pc = "escaped"]
    /\ UNCHANGED <<ser, rts, stop_event, message_handler, last_call>>
    /\ UNCHANGED <<rxVars, procVars, txVars, latVars, extVars, statusVars,
                   calc, test, counting>>

\* The baud sweep: after the connect sequence baud_rate_test or
\* _run_baud_flip runs, each set_baudrate() going through close(), the
\* replacement of the workers, open() and start_reading(), while the
\* workers end when told to.
NextSweep ==
    \/ Open
    \/ (message_handler = "none" /\ SetMessageHandler("app"))
    \/ StartReading
    \/ BaudRateTestBegin
    \/ BaudRateTestIterate
    \/ BaudRateTestSetBaudrate
    \/ BaudRateTestSkip
    \/ BaudRateTestRaise
    \/ BaudRateTestRebind
    \/ BaudRateTestRecord
    \/ BaudRateTestLoopEnd
    \/ BaudRateTestRestore
    \/ BaudRateTestRestoreRebind
    \/ BaudRateTestWrite
    \/ BaudFlipBegin
    \/ BaudFlipSetBaudrate
    \/ BaudFlipSkip
    \/ BaudFlipRaise
    \/ BaudFlipRebind
    \/ BaudFlipBurst
    \/ BaudFlipLoopEnd
    \/ BaudFlipRestore
    \/ BaudFlipRestoreRebind
    \/ BaudFlipReturn
    \/ BaudRateTestInterrupt
    \/ BaudFlipInterrupt
    \/ CloseJoinReader
    \/ CloseJoinProcessor
    \/ ClosePort
    \/ SetBaudrateReplace
    \/ SetBaudrateOpen
    \/ SetBaudrateStart
    \/ ReaderExit
    \/ ProcessorExit

SpecSweep == Init /\ [][NextSweep]_vars

\* ------------------------------------------- LatencyTest: the burst run

\* What is typed for the number of times and of samples, and the pairs of
\* min and max wait in ms.
NumTimesInputs == {0, 1, 2}

SamplesInputs == {0, 1, 2, MAX_SAMPLE_SIZE, MAX_SAMPLE_SIZE + 1}

WaitInputs == {<<0, 100>>, <<10, 10>>}

\* _show_options: the number of times, replaced by the default if not
\* positive.
ShowOptionsNumTimes(num_times) ==
    IF num_times <= 0 THEN DEFAULT_NUM_TIMES ELSE num_times

\* _show_options: the number of samples, replaced by the default if it is
\* not positive and below MAX_SAMPLE_SIZE.
ShowOptionsSamples(num_samples) ==
    IF num_samples <= 0 /\ num_samples < MAX_SAMPLE_SIZE
    THEN DEFAULT_SAMPLES ELSE num_samples

\* iteration_counter.to_bytes(2, byteorder="big") succeeds.
CounterFits(iteration_counter) ==
    iteration_counter >= 0 /\ iteration_counter < 65536

\* min_wait + (max_wait - min_wait) * (j / (num_times - 1)) as a fraction;
\* the division is by num_times - 1.
WaitingTime(min_wait, max_wait, j, num_times) ==
    <<min_wait * (num_times - 1) + (max_wait - min_wait) * j, num_times - 1>>

\* execute_test on a connected interface: _show_options returns what was
\* typed or the defaults, and main_test is entered with an empty
\* output_data.
LatencyExecuteTest ==
    /\ test.pc = "idle"
    /\ sweep.pc = "idle"
    /\ closer.pc = "idle"
    /\ last_call.op = "start_reading"
    /\ \E num_times \in NumTimesInputs, num_samples \in SamplesInputs,
          wait \in WaitInputs :
          LET times == ShowOptionsNumTimes(num_times)
          IN  test' = [NoTest EXCEPT
                         !.pc = "burst",
                         !.num_times = times,
                         !.min_wait = wait[1],
                         !.max_wait = wait[2],
                         !.samples = ShowOptionsSamples(num_samples),
                         !.in_flight = [b \in 0..(times - 1) |-> 0],
                         !.heard = [b \in 0..(times - 1) |-> 0]]
    /\ UNCHANGED <<ser, rts, stop_event, message_handler, last_call>>
    /\ UNCHANGED <<rxVars, procVars, txVars, latVars, extVars, statusVars,
                   calc, sweep, counting>>

\* The head of the loop body of main_test: latency_results is cleared and
\* waiting_time computed; with num_times = 1 the division raises
\* ZeroDivisionError, which execute_test does not catch.
MainTestIterate ==
    /\ test.pc = "burst"
    /\ test.j < test.num_times
    /\ IF test.num_times - 1 = 0
       THEN test' = [test EXCEPT !.pc = "escaped",
                               !.latency_results = <<>>,
                               !.exception = "ZeroDivisionError"]
       ELSE test' = [test EXCEPT !.pc = "publish",
                               !.latency_results = <<>>,
                               !.waiting_time =
                                   WaitingTime(test.min_wait, test.max_wait,
                                               test.j, test.num_times)]
    /\ UNCHANGED <<ser, rts, stop_event, message_handler, last_call>>
    /\ UNCHANGED <<rxVars, procVars, txVars, latVars, extVars, statusVars,
                   calc, sweep, counting>>

\* The counters range(samples) passes to publish, up to the first one that
\* does not fit two bytes.
PublishedCounters(samples) ==
    {i \in {0, samples - 1, MAX_SAMPLE_SIZE - 1, MAX_SAMPLE_SIZE} :
        /\ i < samples
        /\ \A k \in {MAX_SAMPLE_SIZE} : k < i => CounterFits(k)}

\* The largest of a non-empty set of counters.
LastOf(counters) == CHOOSE i \in counters : \A k \in counters : k <= i

\* for i in range(samples): publish(i, length): every frame whose counter
\* fits is written and its echo is due; a counter that does not fit raises
\* OverflowError out of publish, main_test and execute_test.
MainTestPublish ==
    /\ test.pc = "publish"
    /\ LET last == LastOf(PublishedCounters(test.samples))
       IN  IF CounterFits(last)
           THEN test' = [test EXCEPT !.pc = "results",
                                   !.last_counter = last,
                                   !.in_flight[test.j] = test.samples]
           ELSE test' = [test EXCEPT !.pc = "escaped",
                                   !.last_counter = last,
                                   !.in_flight[test.j] = last,
                                   !.exception = "OverflowError"]
    /\ UNCHANGED <<ser, rts, stop_event, message_handler, last_call>>
    /\ UNCHANGED <<rxVars, procVars, txVars, latVars, extVars, statusVars,
                   calc, sweep, counting>>

\* handle_message on the processor's thread: the echo of a frame of burst b
\* arrives and its latency is appended to latency_results.
LatencyHandleMessage(b) ==
    /\ test.pc \in {"burst", "publish", "results", "pause"}
    /\ b \in DOMAIN test.in_flight
    /\ test.in_flight[b] > 0
    /\ test.arrivals < MaxArrivals
    /\ test' = [test EXCEPT !.in_flight[b] = @ - 1,
                          !.latency_results = Append(@, b),
                          !.arrivals = @ + 1,
                          !.heard[b] = IF b = test.j /\ test.pc \in {"results",
                                                                   "pause"}
                                       THEN @ + 1 ELSE @]
    /\ UNCHANGED <<ser, rts, stop_event, message_handler, last_call>>
    /\ UNCHANGED <<rxVars, procVars, txVars, latVars, extVars, statusVars,
                   calc, sweep, counting>>

\* _calculate_test_results and the copy of latency_results: the record of
\* burst j.
TestResults(j, samples, waiting_time, latency_results) ==
    [test |-> j, samples |-> samples, waiting_time |-> waiting_time,
     dropped_messages |-> samples - Len(latency_results),
     results |-> latency_results]

\* After the last publish the record of the burst is computed and appended
\* to output_data; the pause of wait_time seconds follows.
MainTestResults ==
    /\ test.pc = "results"
    /\ test' = [test EXCEPT !.pc = "pause",
                          !.output_data =
                              Append(@, TestResults(test.j, test.samples,
                                                    test.waiting_time,
                                                    test.latency_results))]
    /\ UNCHANGED <<ser, rts, stop_event, message_handler, last_call>>
    /\ UNCHANGED <<rxVars, procVars, txVars, latVars, extVars, statusVars,
                   calc, sweep, counting>>

\* time.sleep(wait_time) is over and the next iteration follows.
MainTestPause ==
    /\ test.pc = "pause"
    /\ test' = [test EXCEPT !.pc = "burst", !.j = @ + 1]
    /\ UNCHANGED <<ser, rts, stop_event, message_handler, last_call>>
    /\ UNCHANGED <<rxVars, procVars, txVars, latVars, extVars, statusVars,
                   calc, sweep, counting>>

\* The loop is over: _write_output_to_file(file_path, output_data), and
\* execute_test returns.
MainTestWrite ==
    /\ test.pc = "burst"
    /\ test.j >= test.num_times
    /\ test' = [test EXCEPT !.pc = "returned", !.written = TRUE,
                          !.file = test.output_data]
    /\ UNCHANGED <<ser, rts, stop_event, message_handler, last_call>>
    /\ UNCHANGED <<rxVars, procVars, txVars, latVars, extVars, statusVars,
                   calc, sweep, counting>>

\* KeyboardInterrupt while main_test runs: execute_test catches it, logs
\* and returns; nothing was written.
LatencyInterrupt ==
    /\ test.pc \in {"burst", "publish", "results", "pause"}
    /\ test' = [test EXCEPT !.pc = "returned",
                          !.exception = "KeyboardInterrupt"]
    /\ UNCHANGED <<ser, rts, stop_event, message_handler, last_call>>
    /\ UNCHANGED <<rxVars, procVars, txVars, latVars, extVars, statusVars,
                   calc, sweep, counting>>

\* The latency test: after the connect sequence execute_test runs its
\* bursts while echoes come in and the user may interrupt.
NextBurst ==
    \/ Open
    \/ (message_handler = "none" /\ SetMessageHandler("app"))
    \/ StartReading
    \/ LatencyExecuteTest
    \/ MainTestIterate
    \/ MainTestPublish
    \/ \E b \in 0..(DEFAULT_NUM_TIMES - 1) : LatencyHandleMessage(b)
    \/ MainTestResults
    \/ MainTestPause
    \/ MainTestWrite
    \/ LatencyInterrupt

SpecBurst == Init /\ [][NextBurst]_vars

\* The controllers the menu starts: one of them runs.
NextControllers ==
    \/ Open
    \/ (message_handler = "none" /\ SetMessageHandler("app"))
    \/ StartReading
    \/ BaudRateTestBegin
    \/ BaudRateTestIterate
    \/ BaudRateTestSetBaudrate
    \/ BaudRateTestSkip
    \/ BaudRateTestRaise
    \/ BaudRateTestRebind
    \/ BaudRateTestRecord
    \/ BaudRateTestLoopEnd
    \/ BaudRateTestRestore
    \/ BaudRateTestRestoreRebind
    \/ BaudRateTestWrite
    \/ BaudFlipBegin
    \/ BaudFlipSetBaudrate
    \/ BaudFlipSkip
    \/ BaudFlipRaise
    \/ BaudFlipRebind
    \/ BaudFlipBurst
    \/ BaudFlipLoopEnd
    \/ BaudFlipRestore
    \/ BaudFlipRestoreRebind
    \/ BaudFlipReturn
    \/ BaudRateTestInterrupt
    \/ BaudFlipInterrupt
    \/ CloseJoinReader
    \/ CloseJoinProcessor
    \/ ClosePort
    \/ SetBaudrateReplace
    \/ SetBaudrateOpen
    \/ SetBaudrateStart
    \/ ReaderExit
    \/ ProcessorExit
    \/ LatencyExecuteTest
    \/ MainTestIterate
    \/ MainTestPublish
    \/ \E b \in 0..(DEFAULT_NUM_TIMES - 1) : LatencyHandleMessage(b)
    \/ MainTestResults
    \/ MainTestPause
    \/ MainTestWrite
    \/ LatencyInterrupt

SpecControllers == Init /\ [][NextControllers]_vars

\* ===================================================== properties, sweep

\* C23: a sweep in which set_baudrate returned False for some rate still
\* goes on: no exception leaves it, and once it is over the output was
\* written with exactly one record per rate that was set successfully.
C23_SkippedRateLeavesSweepRunning ==
    (sweep.kind = "baud_rate_test" /\ sweep.skipped # <<>>) =>
        /\ sweep.pc # "raised"
        /\ sweep.pc = "done" => /\ sweep.written
                                /\ sweep.output_data = sweep.configured

\* The handler a run registers: the handle_message of its controller.
ControllerHandler(kind) ==
    IF kind = "baud_rate_test" THEN "BAUD_SWEEP" ELSE "STRESS"

\* C24: when a sweep with restore_baudrate set or a baud_flip scenario is
\* over, the rate of the interface is the one it had when the run began,
\* and the controller's handler was registered after the last
\* set_baudrate().
C24_RestoredAndReboundWhenFinished ==
    ( /\ sweep.pc = "done"
      /\ sweep.kind = "baud_flip" \/ sweep.restore_baudrate )
    => /\ baudrate = sweep.original_baudrate
       /\ closer.op = "set_baudrate"
       /\ closer.rebound
       /\ message_handler = ControllerHandler(sweep.kind)

\* C25: a latency test or a baud sweep that was cut short, by an interrupt
\* or an exception, after it appended records has written them.
C25_CompletedRecordsWritten ==
    /\ ( /\ test.pc \in {"returned", "escaped"}
         /\ test.exception # "none"
         /\ test.output_data # <<>> )
       => /\ test.written
          /\ test.file = test.output_data
    /\ ( /\ sweep.kind = "baud_rate_test"
         /\ sweep.pc \in {"interrupted", "raised"}
         /\ sweep.output_data # <<>> )
       => sweep.written

\* C26: a KeyboardInterrupt is caught in the execute_ entry point of the
\* controller that runs, which returns; none reaches
\* ApplicationManager.run.
C26_InterruptCaughtInController ==
    /\ sweep.pc # "escaped"
    /\ test.exception = "KeyboardInterrupt" => test.pc = "returned"

\* C27: the latency test runs with at most MAX_SAMPLE_SIZE samples, a
\* larger number typed having been replaced by the dialog, and publish is
\* never called with a counter that does not fit two bytes.
C27_CountersFitTwoBytes ==
    /\ test.samples <= MAX_SAMPLE_SIZE
    /\ test.last_counter # -1 => CounterFits(test.last_counter)

\* The echoes of its own burst that a record holds.
OwnEchoes(record) ==
    Cardinality({i \in 1..Len(record.results) :
                    record.results[i] = record.test})

\* C28: once the pause of a burst is over, its record holds every echo of
\* the burst that came in up to the end of the pause, those of the pause
\* included, and counts none of them as dropped.
C28_PauseEchoesCounted ==
    \A k \in 1..Len(test.output_data) :
        LET record == test.output_data[k]
        IN  test.j > record.test =>
               /\ OwnEchoes(record) = test.heard[record.test]
               /\ record.dropped_messages
                      <= record.samples - test.heard[record.test]

\* C29: a latency test with at most MAX_SAMPLE_SIZE samples that is not
\* interrupted raises nothing, and once it has returned it has written
\* num_times records, the waiting time of burst j lying on the line from
\* min_wait at the first burst to max_wait at the last.
C29_RunsNumTimesBursts ==
    /\ ( /\ test.samples <= MAX_SAMPLE_SIZE
         /\ test.exception # "KeyboardInterrupt" )
       => test.exception = "none"
    /\ (test.pc = "returned" /\ test.exception = "none")
       => /\ test.written
          /\ Len(test.file) = test.num_times
          /\ \A k \in 1..Len(test.file) :
                LET wait == test.file[k].waiting_time
                    last == test.num_times - 1
                IN  /\ test.file[k].test = k - 1
                    /\ wait[1] * last
                          = wait[2] * ( test.min_wait * last
                                        + (test.max_wait - test.min_wait)
                                          * (k - 1) )

\* ================================================ properties, publish order

\* C30: when publish hands a frame to write(), the send time of its
\* counter is already in latency_msg_sent; and the handler never discards,
\* as unknown, a counter that the burst in progress has written.
C30_SentEntryPrecedesEcho ==
    [][ /\ port_out' # port_out => scenario.i \in DOMAIN latency_msg_sent
        /\ ( /\ handler_local.stage = "lookup"
             /\ handler_local'.stage = "none" )
           => handler_local.counter \notin CountersOf(scenario.i) ]_vars

\* In the first burst, counter 1 is stamped and about to be written while
\* the handler has found the send time of the echo of counter 0.
C30_Witness ==
    /\ scenario.bursts = 0
    /\ scenario.pc = "write"
    /\ scenario.i = 1
    /\ 1 \in DOMAIN latency_msg_sent
    /\ handler_local.stage = "store"
    /\ handler_local.counter = 0

\* ------------------------------------- BaseTest.handle_message: status frames

STATISTICS_STATUS_COMMAND == 23

TASK_STATUS_COMMAND == 24

\* Status frames handed to handle_message in one run.
MaxStatusFrames == 2

\* decoded_data[lo:hi]: the bytes the frame has at the (0-based) positions
\* lo..hi-1, fewer than hi - lo of them when the frame ends before hi.
BytesSlice(decoded_data, lo, hi) ==
    IF Len(decoded_data) <= lo
    THEN <<>>
    ELSE SubSeq(decoded_data, lo + 1,
                IF hi < Len(decoded_data) THEN hi ELSE Len(decoded_data))

RECURSIVE FromBytesBigFold(_, _)
FromBytesBigFold(bytes, acc) ==
    IF bytes = <<>> THEN acc
    ELSE FromBytesBigFold(Tail(bytes), acc * 256 + Head(bytes))

\* int.from_bytes(bytes, byteorder="big"); 0 for no bytes.
FromBytesBig(bytes) == FromBytesBigFold(bytes, 0)

\* Full responses of the device: three leading bytes, the index of the
\* slot, and the big-endian u32 fields.
FullStatusFrames ==
    {<<0, 0, 0, index>> \o body :
        index \in StatusIndexes,
        body \in {<<1, 0, 0, 2, 0, 0, 0, 3, 0, 0, 1, 0>>}}

\* What reaches handle_message: a response, or any leading part of one.
StatusFrames ==
    UNION {{SubSeq(frame, 1, n) : n \in 0..Len(frame)} :
              frame \in FullStatusFrames}

\* The bytes a full body needs, by command.
FullBodyLength(command) ==
    IF command = STATISTICS_STATUS_COMMAND THEN 8 ELSE 16

\* handle_message(command, decoded_data) for a status command, as one
\* step of the processor thread with nobody else at the lock:
\* decoded_data[3] raises IndexError, which is caught, when the frame has
\* no fourth byte; the slices raise nothing; an index that is a slot gets
\* its value and its timestamp under the lock.
HandleStatusFrame(command, decoded_data) ==
    /\ status_handler.pc = "idle"
    /\ status_handler.count < MaxStatusFrames
    /\ LockAvailable(status_lock)
    /\ status_handler' = [status_handler EXCEPT !.count = @ + 1]
    /\ IF Len(decoded_data) < 4
       THEN /\ calc' = [op |-> "handle_message", command |-> command,
                        decoded_data |-> decoded_data,
                        caught |-> "IndexError", escaped |-> "none"]
            /\ UNCHANGED <<statistics_values, statistics_updated_at,
                           task_values, task_updated_at, stored_by>>
       ELSE /\ calc' = [op |-> "handle_message", command |-> command,
                        decoded_data |-> decoded_data,
                        caught |-> "none", escaped |-> "none"]
            /\ \E status_index \in {decoded_data[4]} :
                 IF command = STATISTICS_STATUS_COMMAND
                 THEN \E status_value \in
                            {FromBytesBig(BytesSlice(decoded_data, 4, 8))} :
                        IF status_index \in DOMAIN statistics_values
                        THEN /\ statistics_values' =
                                    [statistics_values EXCEPT
                                        ![status_index] = status_value]
                             /\ statistics_updated_at' =
                                    [statistics_updated_at EXCEPT
                                        ![status_index] = status_clock]
                             /\ stored_by' =
                                    [stored_by EXCEPT
                                        !["statistics"][status_index] =
                                            [value |-> status_value,
                                             handled_at |-> status_clock]]
                             /\ UNCHANGED <<task_values, task_updated_at>>
                        ELSE UNCHANGED <<statistics_values,
                                         statistics_updated_at, task_values,
                                         task_updated_at, stored_by>>
                 ELSE \E abs_time \in
                            {FromBytesBig(BytesSlice(decoded_data, 4, 8))},
                         perc_time \in
                            {FromBytesBig(BytesSlice(decoded_data, 8, 12))},
                         h_watermark \in
                            {FromBytesBig(BytesSlice(decoded_data, 12, 16))} :
                        IF status_index \in DOMAIN task_values
                        THEN /\ task_values' =
                                    [task_values EXCEPT ![status_index] =
                                        [absolute_time_us |-> abs_time,
                                         percent_time |-> perc_time,
                                         high_watermark |-> h_watermark]]
                             /\ task_updated_at' =
                                    [task_updated_at EXCEPT
                                        ![status_index] = status_clock]
                             /\ stored_by' =
                                    [stored_by EXCEPT
                                        !["task"][status_index] =
                                            [value |-> abs_time,
                                             handled_at |-> status_clock]]
                             /\ UNCHANGED <<statistics_values,
                                            statistics_updated_at>>
                        ELSE UNCHANGED <<statistics_values,
                                         statistics_updated_at, task_values,
                                         task_updated_at, stored_by>>
    /\ UNCHANGED <<status_lock, snapshot, status_clock>>
    /\ UNCHANGED <<ser, rts, stop_event, message_handler, last_call>>
    /\ UNCHANGED <<rxVars, procVars, txVars, latVars, extVars, sweep, test, counting>>

\* The processor thread hands status frames of any length to
\* handle_message while the clock runs.
NextStatusFrame ==
    \/ StatusTick
    \/ \E command \in {STATISTICS_STATUS_COMMAND, TASK_STATUS_COMMAND},
         decoded_data \in StatusFrames :
           HandleStatusFrame(command, decoded_data)

SpecStatusFrame == Init /\ [][NextStatusFrame]_vars

\* The step is a call of handle_message with a status frame that lacks
\* part of its body.
ShortStatusFrameHandled ==
    /\ status_handler'.count = status_handler.count + 1
    /\ calc'.op = "handle_message"
    /\ Len(calc'.decoded_data) < FullBodyLength(calc'.command)

\* C31: a STATISTICS_STATUS frame of fewer than 8 decoded bytes, or a
\* TASK_STATUS frame of fewer than 16, is skipped: handling it changes no
\* slot's value and no last_updated timestamp, and lets no exception out.
C31_ShortStatusFrameSkipped ==
    [][ShortStatusFrameHandled =>
          /\ UNCHANGED <<statistics_values, statistics_updated_at,
                         task_values, task_updated_at>>
          /\ calc'.escaped = "none"]_vars

\* --------------------------------------------------- StressTest._make_result

\* drop_ratio as _make_result computes it for the ScenarioResult.
make_result_DropRatio(messages_sent, messages_received) ==
    IF messages_sent > 0
    THEN <<messages_sent - messages_received, messages_sent>>
    ELSE <<0, 1>>

\* _make_result(cfg, messages_sent=..., messages_received=...,
\* latencies_ms=..., status_delta=...): the fields of the ScenarioResult
\* that the evaluation fills.
make_result(cfg, messages_sent, messages_received, latencies_ms, status_delta) ==
    LET evaluated == evaluate_verdict(cfg, messages_sent, messages_received,
                                      latencies_ms, status_delta)
    IN  [command_profile |-> cfg.command_profile,
         messages_sent |-> messages_sent,
         messages_received |-> messages_received,
         drop_ratio |-> make_result_DropRatio(messages_sent,
                                              messages_received),
         status_delta |-> status_delta,
         verdict |-> evaluated.verdict,
         failure_reasons |-> evaluated.reasons]

\* A call of _make_result at the end of a scenario, which has counted no
\* more echoes than it has published frames.
MakeResult ==
    /\ calc = NoCalc
    /\ \E command_profile \in CommandProfiles,
          counts \in {c \in SentCounts \X (ReceivedCounts \cup SentCounts) :
                          c[2] <= c[1]},
          max_echo_drop_ratio \in DropLimits,
          max_error_counter_deltas \in CounterLimitDicts,
          max_p95_latency_ms \in P95Limits,
          latencies_ms \in LatencyLists,
          status_delta \in StatusDeltaDicts :
           LET cfg == [command_profile |-> command_profile,
                       thresholds |->
                           [max_echo_drop_ratio |-> max_echo_drop_ratio,
                            max_error_counter_deltas |->
                                max_error_counter_deltas,
                            max_p95_latency_ms |-> max_p95_latency_ms]]
           IN  calc' = [op |-> "make_result", cfg |-> cfg,
                        result |-> make_result(cfg, counts[1], counts[2],
                                               latencies_ms, status_delta)]
    /\ UNCHANGED <<ser, rts, stop_event, message_handler, last_call>>
    /\ UNCHANGED <<rxVars, procVars, txVars, latVars, extVars, statusVars,
                   sweep, test, counting>>

SpecMakeResult == Init /\ [][MakeResult]_vars

\* C32: the drop_ratio of a ScenarioResult is the value evaluate_verdict
\* compared with max_echo_drop_ratio, so it is never negative and a
\* result whose verdict is PASS has no drop_ratio above that limit.
C32_RecordedDropRatioIsTheJudgedOne ==
    calc.op = "make_result" =>
        LET result == calc.result
            judged == DropRatio(result.command_profile, result.messages_sent,
                                result.messages_received, result.status_delta)
        IN  /\ result.drop_ratio[1] * judged[2]
                   = judged[1] * result.drop_ratio[2]
            /\ result.drop_ratio[1] >= 0
            /\ result.verdict = "PASS" =>
                   ~RatioGreater(result.drop_ratio,
                                 calc.cfg.thresholds.max_echo_drop_ratio)

\* ------------------------- BaseTest._request_status_snapshot against the clock

\* STATUS_REQUEST_TIMEOUT_S, in readings of the status clock.
STATUS_REQUEST_TIMEOUT_S == 2

\* _request_status_snapshot with a port: snapshot_marker =
\* time.perf_counter(), and the request loops are entered with one request
\* to make per slot.
SnapshotTimedBegin ==
    /\ snapshot.pc = "idle"
    /\ snapshot.calls = 0
    /\ ser # "none"
    /\ last_call.op = "start_reading"
    /\ snapshot' =
           [pc |-> "request", snapshot_marker |-> status_clock,
            statistics |-> NoSnapshot.statistics, tasks |-> NoSnapshot.tasks,
            stats_received |-> 0, tasks_received |-> 0, complete |-> FALSE,
            calls |-> snapshot.calls + 1,
            requests_left |-> Cardinality(STATISTICS_ITEMS)
                                  + Cardinality(TASK_ITEMS),
            requests_written |-> 0, deadline |-> 0]
    /\ UNCHANGED <<statistics_values, statistics_updated_at, task_values,
                   task_updated_at, status_lock, status_handler, status_clock>>
    /\ UNCHANGED <<ser, rts, stop_event, message_handler, last_call,
                   stored_by>>
    /\ UNCHANGED <<rxVars, procVars, txVars, latVars, extVars, calc, sweep,
                   test, counting>>

\* One turn of the request loops: _status_update calls write(), which
\* sends nothing once the stop event is set or the port is closed, and
\* time.sleep(STATUS_REQUEST_SPACING_S) follows whatever the stop event
\* says. After the last request deadline = time.perf_counter() + timeout_s.
SnapshotRequest ==
    /\ snapshot.pc = "request"
    /\ snapshot' =
           [snapshot EXCEPT
               !.requests_left = @ - 1,
               !.requests_written =
                   IF ser = "open" /\ ~stop_event THEN @ + 1 ELSE @,
               !.pc = IF snapshot.requests_left = 1 THEN "poll"
                      ELSE "request",
               !.deadline = IF snapshot.requests_left = 1
                            THEN status_clock + STATUS_REQUEST_TIMEOUT_S
                            ELSE @]
    /\ UNCHANGED <<statistics_values, statistics_updated_at, task_values,
                   task_updated_at, status_lock, status_handler, status_clock>>
    /\ UNCHANGED <<ser, rts, stop_event, message_handler, last_call,
                   stored_by>>
    /\ UNCHANGED <<rxVars, procVars, txVars, latVars, extVars, calc, sweep,
                   test, counting>>

\* while time.perf_counter() < deadline: one turn of the polling loop
\* before the deadline, left only when both counts are full.
SnapshotTimedPoll ==
    /\ snapshot.pc = "poll"
    /\ status_clock < snapshot.deadline
    /\ SnapshotPoll

\* while time.perf_counter() < deadline: the deadline has been reached.
SnapshotTimedDeadline ==
    /\ snapshot.pc = "poll"
    /\ status_clock >= snapshot.deadline
    /\ SnapshotDeadline

\* The slots in the order the request loops go through them.
StatusRequestOrder ==
    <<[kind |-> "statistics", index |-> 0],
      [kind |-> "statistics", index |-> 1],
      [kind |-> "task", index |-> 0]>>

\* The processor, while it runs, hands handle_message the device's answer
\* to the next request that was written and is not answered yet.
SnapshotAnswer ==
    /\ processing_thread = "running"
    /\ snapshot.pc \in {"request", "poll"}
    /\ status_handler.count < snapshot.requests_written
    /\ \E answer \in {StatusRequestOrder[status_handler.count + 1]} :
          StatusHandlerStamp(answer.kind, answer.index, 1)

\* A snapshot is requested after connecting, while the clock runs, the
\* processor hands over answers as long as it runs, and the port may be
\* closed or the reader may die at any moment.
NextSnapshotStop ==
    \/ Open
    \/ (message_handler = "none" /\ SetMessageHandler("app"))
    \/ StartReading
    \/ (closer.calls = 0 /\ CloseCall("main"))
    \/ CloseJoinReader
    \/ CloseJoinProcessor
    \/ ClosePort
    \/ ReaderExit
    \/ ProcessorExit
    \/ StatusTick
    \/ SnapshotAnswer
    \/ StatusHandlerAcquire
    \/ StatusHandlerStoreValue
    \/ StatusHandlerStoreTime
    \/ SnapshotTimedBegin
    \/ SnapshotRequest
    \/ SnapshotTimedPoll
    \/ SnapshotTimedDeadline
    \/ SnapshotAcquire
    \/ SnapshotReadValues
    \/ SnapshotReadCounts
    \/ SnapshotReturn

SpecSnapshotStop == Init /\ [][NextSnapshotStop]_vars

\* The loops of _request_status_snapshot.
SnapshotLoops == {"request", "poll"}

\* C33: _request_status_snapshot honours the stop signal: with the stop
\* event set, the turn of the request loop or of the polling loop it is in
\* is its last, whatever remains of the timeout.
C33_SnapshotHonoursStop ==
    [][(/\ stop_event
        /\ snapshot.pc \in SnapshotLoops
        /\ snapshot' # snapshot) => snapshot'.pc \notin SnapshotLoops]_vars

\* ------------------------------------ SerialStatistics: the += of each thread

\* Increments of the statistics made in one run, all threads together.
MaxIncrements == 4

\* Byte counts of a chunk read or of a frame written, and command numbers.
ChunkSizes == {1, 2}

CountedCommands == {ECHO_COMMAND, STATISTICS_STATUS_COMMAND}

\* The counter the processor adds to, were it the one of write().
ProcessorCounter_OfWriter == "commands_sent"

\* The counter each thread adds to: _handle_received_data,
\* _process_complete_message, and the two of write().
ReaderCounter == "bytes_received"

ProcessorCounter == "commands_received"

WriterBytesCounter == "bytes_sent"

WriterCommandCounter == "commands_sent"

\* The value of self.statistics.<field>, or of its entry for a command.
StatLoad(field, key) ==
    CASE field = "bytes_received" -> bytes_received
      [] field = "bytes_sent" -> bytes_sent
      [] field = "commands_sent" -> commands_sent[key]
      [] field = "commands_received" -> commands_received[key]

\* self.statistics.<field> = value, or the same for an entry.
StatStore(field, key, value) ==
    /\ bytes_received' =
           IF field = "bytes_received" THEN value ELSE bytes_received
    /\ bytes_sent' = IF field = "bytes_sent" THEN value ELSE bytes_sent
    /\ commands_sent' =
           IF field = "commands_sent"
           THEN [commands_sent EXCEPT ![key] = value] ELSE commands_sent
    /\ commands_received' =
           IF field = "commands_received"
           THEN [commands_received EXCEPT ![key] = value]
           ELSE commands_received

\* Some other thread is between the load and the store of a +=.
OthersLoaded(thread) ==
    \E other \in {"reader", "processor", "writer"} \ {thread} :
        counting[other].pc \notin {"idle", "bytes_stored"}

\* What no step of a += touches.
CountingFrame ==
    /\ UNCHANGED <<ser, rts, stop_event, message_handler, last_call>>
    /\ UNCHANGED <<buffer, message_queue, rx_log, enq_log, processing_thread,
                   taken, handled, port_out, writes_called>>
    /\ UNCHANGED <<latVars, extVars, statusVars, calc, sweep, test>>

\* A counter is left as it is.
StatsUnchanged ==
    UNCHANGED <<bytes_received, bytes_sent, commands_sent, commands_received>>

\* _handle_received_data: self.statistics.bytes_received += len(data),
\* the load of the old value.
ReaderLoad(n) ==
    /\ counting.reader.pc = "idle"
    /\ counting.increments < MaxIncrements
    /\ counting' =
           [counting EXCEPT
               !.reader = [pc |-> "loaded",
                           loaded |-> StatLoad(ReaderCounter, 0),
                           amount |-> n],
               !.events.bytes_received = @ + n,
               !.increments = @ + 1,
               !.overlapped = @ \/ OthersLoaded("reader")]
    /\ StatsUnchanged
    /\ CountingFrame

\* ... and the store of the sum.
ReaderStore ==
    /\ counting.reader.pc = "loaded"
    /\ StatStore(ReaderCounter, 0,
                 counting.reader.loaded + counting.reader.amount)
    /\ counting' = [counting EXCEPT !.reader = NoCounting.reader]
    /\ CountingFrame

\* _process_complete_message: self.statistics.commands_received[command]
\* += 1, the load.
ProcessorLoad(command) ==
    /\ counting.processor.pc = "idle"
    /\ counting.increments < MaxIncrements
    /\ counting' =
           [counting EXCEPT
               !.processor = [pc |-> "loaded",
                              loaded |-> StatLoad(ProcessorCounter, command),
                              command |-> command],
               !.events.commands_received[command] = @ + 1,
               !.increments = @ + 1,
               !.overlapped = @ \/ OthersLoaded("processor")]
    /\ StatsUnchanged
    /\ CountingFrame

\* ... and the store.
ProcessorStore ==
    /\ counting.processor.pc = "loaded"
    /\ StatStore(ProcessorCounter, counting.processor.command,
                 counting.processor.loaded + 1)
    /\ counting' = [counting EXCEPT !.processor = NoCounting.processor]
    /\ CountingFrame

\* write(data) with a payload that has a command byte, after
\* self.ser.write(message) has returned n: self.statistics.bytes_sent +=
\* bytes_writen, the load.
WriterLoadBytes(n, command) ==
    /\ counting.writer.pc = "idle"
    /\ counting.increments < MaxIncrements
    /\ counting' =
           [counting EXCEPT
               !.writer = [pc |-> "bytes_loaded",
                           loaded |-> StatLoad(WriterBytesCounter, 0),
                           amount |-> n, command |-> command],
               !.events.bytes_sent = @ + n,
               !.events.commands_sent[command] = @ + 1,
               !.increments = @ + 1,
               !.overlapped = @ \/ OthersLoaded("writer")]
    /\ StatsUnchanged
    /\ CountingFrame

\* ... the store of bytes_sent.
WriterStoreBytes ==
    /\ counting.writer.pc = "bytes_loaded"
    /\ StatStore(WriterBytesCounter, 0,
                 counting.writer.loaded + counting.writer.amount)
    /\ counting' = [counting EXCEPT !.writer.pc = "bytes_stored"]
    /\ CountingFrame

\* self.statistics.commands_sent[command] += 1, the load.
WriterLoadCommand ==
    /\ counting.writer.pc = "bytes_stored"
    /\ counting' =
           [counting EXCEPT
               !.writer.pc = "command_loaded",
               !.writer.loaded =
                   StatLoad(WriterCommandCounter, counting.writer.command),
               !.overlapped = @ \/ OthersLoaded("writer")]
    /\ StatsUnchanged
    /\ CountingFrame

\* ... and the store.
WriterStoreCommand ==
    /\ counting.writer.pc = "command_loaded"
    /\ StatStore(WriterCommandCounter, counting.writer.command,
                 counting.writer.loaded + 1)
    /\ counting' = [counting EXCEPT !.writer = NoCounting.writer]
    /\ CountingFrame

\* The reader, the processor and the publishing thread add to the
\* statistics, every load and store a step of its own.
NextCounting ==
    \/ \E n \in ChunkSizes : ReaderLoad(n)
    \/ ReaderStore
    \/ \E command \in CountedCommands : ProcessorLoad(command)
    \/ ProcessorStore
    \/ \E n \in ChunkSizes, command \in CountedCommands :
         WriterLoadBytes(n, command)
    \/ WriterStoreBytes
    \/ WriterLoadCommand
    \/ WriterStoreCommand

SpecCounting == Init /\ [][NextCounting]_vars

\* No thread is inside a +=.
CountingQuiescent ==
    /\ counting.reader.pc = "idle"
    /\ counting.processor.pc = "idle"
    /\ counting.writer.pc = "idle"

\* C34: no increment of a statistics counter is lost, however the reader,
\* the processor and the publishing thread interleave: at quiescence each
\* counter equals the number, or the byte sum, of the events it counts.
C34_NoIncrementLost ==
    CountingQuiescent =>
        /\ bytes_received = counting.events.bytes_received
        /\ commands_received = counting.events.commands_received
        /\ bytes_sent = counting.events.bytes_sent
        /\ commands_sent = counting.events.commands_sent

\* All three threads have counted, one inside another's +=, and are done.
C34_Witness ==
    /\ CountingQuiescent
    /\ counting.overlapped
    /\ bytes_received > 0
    /\ commands_received[ECHO_COMMAND] > 0
    /\ bytes_sent > 0
    /\ commands_sent[ECHO_COMMAND] > 0

\* --------------------------------- ApplicationManager: the monitor thread

\* What a step of the monitor thread leaves alone when it only changes
\* the application's fields.
MonitorFrame ==
    /\ UNCHANGED <<ser, rts, stop_event, message_handler, last_call,
                   delivered>>
    /\ UNCHANGED calcVars
    /\ UNCHANGED <<rxVars, procVars, txVars, latVars, lifeVars>>

\* What a step of the monitor thread inside close() leaves alone, the
\* port and the stop event apart.
MonitorCloseFrame ==
    /\ UNCHANGED <<rts, message_handler, last_call, delivered>>
    /\ UNCHANGED calcVars
    /\ UNCHANGED <<rxVars, procVars, txVars, latVars, lifeVars>>

\* _monitor_connection: if self.connected and not
\* self.serial_interface.is_open(), found true at one of its looks.
MonitorCheck ==
    /\ app.monitor = "idle"
    /\ app.connected
    /\ ser # "open"
    /\ app' = [app EXCEPT !.monitor = "is_open"]
    /\ MonitorFrame

\* disconnect_serial(): if self.serial_interface.is_open(), asked again.
MonitorIsOpen ==
    /\ app.monitor = "is_open"
    /\ app' = [app EXCEPT !.monitor = IF ser = "open" THEN "close"
                                      ELSE "pop"]
    /\ MonitorFrame

\* disconnect_serial(): self.serial_interface.close() is entered and sets
\* the stop event, whatever the menu thread is doing to the port.
MonitorCloseEnter ==
    /\ app.monitor = "close"
    /\ stop_event' = TRUE
    /\ app' = [app EXCEPT !.monitor = "join_reader"]
    /\ UNCHANGED ser
    /\ MonitorCloseFrame

\* close(): self.read_thread.join(), a RuntimeError that ends the monitor
\* thread if the thread object was never started, otherwise a wait for
\* the reader to end.
MonitorJoinReader ==
    /\ app.monitor = "join_reader"
    /\ IF read_thread = "unstarted"
       THEN app' = [app EXCEPT !.monitor = "dead"]
       ELSE /\ read_thread = "terminated"
            /\ app' = [app EXCEPT !.monitor = "join_processor"]
    /\ MonitorFrame

\* close(): self.processing_thread.join(), likewise.
MonitorJoinProcessor ==
    /\ app.monitor = "join_processor"
    /\ IF processing_thread = "unstarted"
       THEN app' = [app EXCEPT !.monitor = "dead"]
       ELSE /\ processing_thread = "terminated"
            /\ app' = [app EXCEPT !.monitor = "pop"]
    /\ ser' = IF processing_thread = "terminated" /\ ser = "open"
              THEN "closed" ELSE ser
    /\ UNCHANGED stop_event
    /\ MonitorCloseFrame

\* disconnect_serial(): self.modules.pop(cfg.mode, None) for every module
\* that requires the port.
MonitorPop ==
    /\ app.monitor = "pop"
    /\ app' = [app EXCEPT !.modules = @ \cap NonSerialModes,
                          !.monitor = "set_idle"]
    /\ MonitorFrame

\* disconnect_serial(): self.mode = Mode.IDLE
MonitorSetIdle ==
    /\ app.monitor = "set_idle"
    /\ app' = [app EXCEPT !.mode = "IDLE", !.monitor = "set_disconnected"]
    /\ MonitorFrame

\* disconnect_serial(): self.connected = False, and the monitor sleeps
\* until its next look.
MonitorSetDisconnected ==
    /\ app.monitor = "set_disconnected"
    /\ app' = [app EXCEPT !.connected = FALSE, !.monitor = "idle",
                          !.disconnects = @ + 1]
    /\ MonitorFrame

\* The reader finds the stop event set and ends.
ReaderStops ==
    /\ stop_event
    /\ ReaderExit

\* The application with its monitor thread: the connect sequence, menu
\* actions, sweeps that reconfigure the port, a reader that may die.
NextMonitor ==
    \/ Open
    \/ (message_handler = "none" /\ SetMessageHandler("app"))
    \/ StartReading
    \/ AppConnected
    \/ \E mode \in AppModes : MenuSelect(mode)
    \/ SweepSetBaudrate
    \/ CloseJoinReader
    \/ CloseJoinProcessor
    \/ ClosePort
    \/ SetBaudrateReplace
    \/ SetBaudrateOpen
    \/ SetBaudrateStart
    \/ RunnerRebind
    \/ RunnerReturn
    \/ ReaderExit
    \/ ProcessorExit
    \/ MonitorCheck
    \/ MonitorIsOpen
    \/ MonitorCloseEnter
    \/ MonitorJoinReader
    \/ MonitorJoinProcessor
    \/ MonitorPop
    \/ MonitorSetIdle
    \/ MonitorSetDisconnected

SpecMonitor == Init /\ [][NextMonitor]_vars

\* The scheduling the threads have: the monitor looks every half second
\* and goes through disconnect_serial(); a worker that finds the stop
\* event set ends; a close() or set_baudrate() in progress goes on.
FairSpecMonitor ==
    /\ SpecMonitor
    /\ WF_vars(MonitorCheck)
    /\ WF_vars(MonitorIsOpen)
    /\ WF_vars(MonitorCloseEnter)
    /\ WF_vars(MonitorJoinReader)
    /\ WF_vars(MonitorJoinProcessor)
    /\ WF_vars(MonitorPop)
    /\ WF_vars(MonitorSetIdle)
    /\ WF_vars(MonitorSetDisconnected)
    /\ WF_vars(ReaderStops)
    /\ WF_vars(ProcessorExit)
    /\ WF_vars(CloseJoinReader)
    /\ WF_vars(CloseJoinProcessor)
    /\ WF_vars(ClosePort)
    /\ WF_vars(SetBaudrateReplace)
    /\ WF_vars(SetBaudrateOpen)
    /\ WF_vars(SetBaudrateStart)

\* The port is not open although the application believes itself connected.
PortLostWhileConnected ==
    /\ app.connected
    /\ ser # "open"

\* What disconnect_serial() leaves: connected false, the modules that need
\* the port gone, the others still registered.
SerialModulesRemoved ==
    /\ ~app.connected
    /\ app.modules = NonSerialModes

\* C35: if the port closes while connected is true, the monitor thread
\* eventually runs disconnect_serial: connected becomes false, every
\* module that needs the port is removed, the others staying registered,
\* and the mode returns to IDLE (and is from then on IDLE or the mode of a
\* module that needs no port, selected since).
C35_PortLossLeadsToDisconnect ==
    PortLostWhileConnected ~>
        (SerialModulesRemoved /\ app.mode \in {"IDLE"} \cup NonSerialModes)

\* ------------------------------------- back-pressure with a peer that obeys

\* What the peer sends: the delimiter and a byte that is none.
PeerBytes == {0, 1}

\* The peer sends a chunk, which it does only while RTS is asserted.
PeerSend ==
    /\ ser = "open"
    /\ rts
    /\ \E data \in SeqsOf(PeerBytes, 1, MaxChunk) :
          /\ Len(rx_log) + Len(rx_wire) + Len(data) <= MaxRxBytes
          /\ rx_wire' = rx_wire \o data
    /\ UNCHANGED <<ser, rts, stop_event, message_handler, last_call,
                   latency_msg_sent, latency_msg_received, now,
                   handler_local, scenario, burst_result, device_pos>>
    /\ UNCHANGED calcVars
    /\ UNCHANGED <<rxVars, procVars, txVars, extVars>>

\* The receive path behind a peer that honours RTS: the reader hands every
\* chunk it reads to _handle_received_data; a read() that times out with
\* nothing read changes nothing.
NextRts ==
    \/ Open
    \/ (message_handler = "none" /\ SetMessageHandler("app"))
    \/ StartReading
    \/ PeerSend
    \/ ReaderRead

SpecRts == Init /\ [][NextRts]_vars

\* The reader keeps reading while it runs.
FairSpecRts ==
    /\ SpecRts
    /\ WF_vars(ReaderRead)

\* C36: back-pressure is always released: once RTS is deasserted and the
\* accumulator holds fewer than BUFFER_LOW_WATER bytes, RTS is eventually
\* reasserted, although the peer sends nothing while RTS is deasserted.
C36_BackPressureReleased ==
    (ser = "open" /\ ~rts /\ Len(buffer) < BUFFER_LOW_WATER) ~> rts


\* ------------------------------------------- SerialInterface: reconnection

\* open() called again once the port was closed: a new port object replaces
\* the closed one, its input is reset and RTS asserted. connect_serial goes
\* on only when open() succeeded.
ReopenPort ==
    /\ ser = "closed"
    /\ closer.pc = "idle"
    /\ ser' = "open"
    /\ rts' = TRUE
    /\ rx_wire' = <<>>
    /\ last_call' = Returned("open", "done")
    /\ UNCHANGED <<stop_event, message_handler>>
    /\ UNCHANGED <<rxVars, procVars, txVars>>
    /\ UNCHANGED <<latency_msg_sent, latency_msg_received, now,
                   handler_local, scenario, burst_result, device_pos>>
    /\ UNCHANGED calcVars
    /\ UNCHANGED extVars

\* start_reading() on thread objects that have run: only __init__ and
\* set_baudrate() make thread objects, so these are the ones close() joined.
\* The stop event is cleared, then read_thread.start() raises RuntimeError
\* and nothing is started.
RestartReading ==
    /\ ser = "open"
    /\ message_handler # "none"
    /\ read_thread = "terminated"
    /\ closer.pc = "idle"
    /\ stop_event' = FALSE
    /\ last_call' = Returned("start_reading", "raised")
    /\ UNCHANGED <<ser, rts, message_handler, read_thread>>
    /\ UNCHANGED <<rxVars, procVars, txVars, latVars>>
    /\ UNCHANGED <<baudrate, closer>>
    /\ UNCHANGED calcVars
    /\ UNCHANGED appVars

\* Connections, disconnections and reconnections of one SerialInterface,
\* with its workers and a device that sends frames.
NextCycle ==
    \/ Open
    \/ (message_handler = "none" /\ SetMessageHandler("app"))
    \/ StartReading
    \/ CloseCall("main")
    \/ CloseJoinReader
    \/ CloseJoinProcessor
    \/ ClosePort
    \/ ReaderExit
    \/ ProcessorExit
    \/ ReopenPort
    \/ RestartReading
    \/ DeviceSend
    \/ ReaderRead
    \/ ProcessMessages

SpecCycle == Init /\ [][NextCycle]_vars

\* C37: after close(), open() followed by start_reading() leaves a running
\* reader and a running processor and a clear stop event, and raises
\* nothing, however many times the cycle is repeated.
C37_WorkersCanBeCycled ==
    [][RestartReading =>
          /\ read_thread' = "running"
          /\ processing_thread' = "running"
          /\ ~stop_event'
          /\ last_call'.outcome = "done"]_vars


\* ------------------------------------ properties, set_baudrate and the queue

\* C38: set_baudrate() discards the inbound data of the old rate: when it
\* returns True the accumulator is empty and the inbound queue holds no frame
\* that was enqueued before the call, so that none is dispatched afterwards.
\* The old reader enqueues nothing once the stop event is set and the new one
\* starts with the return, so every frame on the queue at the return was
\* enqueued before the call.
C38_SetBaudrateDiscardsInbound ==
    [][(closer.pc = "start" /\ closer'.pc = "idle")
          => /\ buffer' = <<>>
             /\ message_queue' = <<>>]_vars


\* ----------------------------------------------- echoes of an earlier burst

\* Echo bursts, one after the other, against a device that answers every
\* frame, in the order it received them and after any delay.
NextStaleEcho ==
    \/ Open
    \/ SetMessageHandler("base_test")
    \/ StartReading
    \/ StartBurst
    \/ ClearSent
    \/ ClearReceived
    \/ PublishStamp
    \/ PublishWrite
    \/ BurstResult
    \/ DeviceEcho
    \/ ReaderRead
    \/ ProcessMessages
    \/ HandlerLookup
    \/ HandlerStore

SpecStaleEcho == Init /\ [][NextStaleEcho]_vars

\* The frames the bursts that are over have published: the first of
\* port_out.
RECURSIVE PublishedBefore(_)
PublishedBefore(results) ==
    IF results = <<>> THEN 0
    ELSE results[1].messages_sent + PublishedBefore(Tail(results))

\* The maps have been cleared for the burst in progress.
BurstCleared == scenario.pc \in {"publish", "write", "wait"}

\* C39: a latency sample recorded in a burst pairs a response with the
\* publish made in that same burst: the echo of a frame published in an
\* earlier burst, before the maps were cleared, is never stored as a sample
\* of a later burst. The device answers every frame in order, so the
\* response in the handler is the echo of the frame of port_out at the
\* position of the last frame taken.
C39_SampleIsOfOwnBurst ==
    [][(HandlerStore /\ BurstCleared)
          => Len(taken) > PublishedBefore(burst_result)]_vars


\* ------------------------------------------ properties, commands_sent total

\* sum(counts.values()) over the keys given.
RECURSIVE CountsTotal(_, _)
CountsTotal(counts, keys) ==
    IF keys = {} THEN 0
    ELSE LET key == CHOOSE k \in keys : TRUE
         IN  counts[key] + CountsTotal(counts, keys \ {key})

\* C40: the total of commands_sent equals the number of frames write() has
\* handed to the port, whatever the length of the payloads, 0 and 1 byte
\* included.
C40_CommandsSentCountsFrames ==
    CountsTotal(commands_sent, DOMAIN commands_sent) = Len(port_out)


\* The payload a frame handed to the port carries: the frame without its
\* delimiter, COBS-decoded, without the checksum byte.
PayloadOfFrame(message) ==
    LET decoded == CobsDecode(SubSeq(message, 1, Len(message) - 1)).data
    IN  SubSeq(decoded, 1, Len(decoded) - 1)

\* The frames handed to the port whose payload has a second byte with
\* command code command.
FramesOfCommand(command) ==
    {i \in 1..Len(port_out) :
        LET payload == PayloadOfFrame(port_out[i])
        IN  Len(payload) >= 2 /\ CommandOf(payload) = command}

\* C40, amended: write() hands the frame of every payload to the port, and
\* counts in commands_sent those whose payload has two bytes or more: each
\* count equals the number of such frames with that command code. The frame
\* of a payload of 0 or 1 byte is sent and counted in bytes_sent, and in no
\* count of commands_sent.
C40_CommandsSentCountsLongPayloads ==
    /\ \A command \in DOMAIN commands_sent :
          commands_sent[command] = Cardinality(FramesOfCommand(command))
    /\ (last_call.op = "write" /\ last_call.outcome = "index_error")
       => /\ Len(last_call.data) < 2
          /\ port_out # <<>>
          /\ port_out[Len(port_out)] = Frame(last_call.data)

\* write() was called with a payload of one byte: its frame of four bytes
\* went to the port, which took all of it, and no command was counted.
C40_Witness ==
    /\ last_call.op = "write"
    /\ last_call.outcome = "index_error"
    /\ Len(last_call.data) = 1
    /\ Len(port_out) = 1
    /\ bytes_sent = Len(port_out[1])
    /\ CountsTotal(commands_sent, DOMAIN commands_sent) = 0

====
